---- MODULE Spec2Model ----
(***************************************************************************)
(* A model of the text rendering helpers of crates/ui/src/text:            *)
(*   - Inline::request_layout      (run segmentation)          inline.rs  *)
(*   - point_in_text_selection, Inline::layout_selections      inline.rs  *)
(*   - Inline::paint and the mouse handlers it registers       inline.rs  *)
(*   - split_whitespace_token_ranges, parse_file_ref_token     utils.rs   *)
(* Each group of operations has its own specification over its own         *)
(* variables; the variables of the other groups stay at their idle value.  *)
(***************************************************************************)
EXTENDS Integers, Sequences, FiniteSets, TLC

VARIABLES
    \* ---- Inline (request_layout) ----
    text_len,           \* self.text.len()
    highlights,         \* self.highlights : Vec<(Range<usize>, HighlightStyle)>
    code_ranges,        \* self.code_ranges : Vec<Range<usize>>
    inline_code_style,  \* self.inline_code_style.is_some()
    runs,               \* the runs handed to StyledText::with_runs
    layout_done,        \* request_layout has run
    \* ---- point_in_text_selection ----
    pt_pos,             \* pos : Point<Pixels>
    pt_char_width,      \* char_width : Pixels
    pt_bounds,          \* bounds : &Bounds<Pixels>
    pt_line_height,     \* line_height : Pixels
    pt_called,          \* the function has been called
    pt_result,          \* the returned bool
    \* ---- Inline::layout_selections ----
    sel_chars,          \* self.text, as the UTF-8 length of each of its chars
    sel_layout,         \* text_layout.position_for_index, per byte index
    text_view_state,    \* GlobalState::global(cx).text_view_state()
    sel_line_height,    \* window.line_height()
    sel_done,           \* layout_selections has returned
    sel_result,         \* the returned (is_selectable, is_selection, selection)
    \* ---- split_whitespace_token_ranges ----
    split_text,         \* text : &str, as its sequence of chars
    split_done,         \* the function has returned
    split_ranges,       \* the returned Vec<Range<usize>>
    \* ---- parse_file_ref_token ----
    raw,                \* raw : &str, as its sequence of (ASCII) chars
    parse_done,         \* the function has returned
    file_ref,           \* the returned Option<FileRef>
    \* ---- Inline::paint and the handlers it registers ----
    links,              \* self.links : Vec<(Range<usize>, LinkMark)>
    state_hovered_index,\* state.hovered_index
    state_selection,    \* state.selection
    mouse_position,     \* window.mouse_position(), as the bounds and the layout see it
    modifiers_secondary,\* window.modifiers().secondary()
    painted,            \* a frame of the element has been painted
    cursor_style,       \* the cursor style the last paint set for the hitbox
    hovered_index,      \* hovered_index captured by the mouse-move closure
    mouse_up_registered,\* the last paint registered the mouse-up handler
    last_step,          \* the step taken last
    opened_urls,        \* the cx.open_url calls of the last step
    propagation_stopped,\* cx.stop_propagation() was called in the last step
    notified,            \* cx.notify(current_view) was called in the last step
    \* ---- encode_uri_component ----
    enc_value,           \* value : &str, as its bytes
    enc_done,            \* encode_uri_component has returned
    enc_out,              \* the returned String, as its chars
    \* ---- build_ctx_open_url ----
    url_file_ref,        \* file_ref : &FileRef
    url_worktree_id,     \* worktree_id : Option<&SharedString>
    url_done,            \* build_ctx_open_url has returned
    url_out,              \* the returned Option<SharedString>
    \* ---- build_inline_code_marks ----
    code_text,           \* text : &str, as its sequence of chars
    code_token_links,    \* cx.style.code_token_links
    marks_done,          \* build_inline_code_marks has returned
    marks,                \* the returned Vec<(Range<usize>, TextMark)>
    \* ---- parse_paragraph ----
    inl_node,            \* node : &mdast::Node, an inline node
    inl_done,            \* parse_paragraph has returned
    inl_paragraph,       \* *paragraph, empty before the call
    inl_text,             \* the returned String
    \* ---- ast_to_document (markdown.rs) ----
    doc_children,        \* root.children: the top-level nodes of the AST
    doc_done,            \* ast_to_document has returned
    doc_blocks,          \* ParsedDocument.blocks
    doc_refs,             \* the Reference Table of the NodeContext
    \* ---- list_item_prefix (utils.rs) ----
    lp_ix,               \* ix: usize
    lp_ordered,          \* ordered: bool
    lp_depth,            \* depth: usize
    lp_done,             \* list_item_prefix has returned
    lp_out               \* the String returned

runVars == <<text_len, highlights, code_ranges, inline_code_style, runs, layout_done>>
ptVars == <<pt_pos, pt_char_width, pt_bounds, pt_line_height, pt_called, pt_result>>

selVars == <<sel_chars, sel_layout, text_view_state, sel_line_height, sel_done, sel_result>>

splitVars == <<split_text, split_done, split_ranges>>
tokVars == <<raw, parse_done, file_ref>>
paintVars == <<links, state_hovered_index, state_selection, mouse_position,
               modifiers_secondary, painted, cursor_style, hovered_index,
               mouse_up_registered, last_step, opened_urls, propagation_stopped,
               notified>>

encVars == <<enc_value, enc_done, enc_out>>

urlVars == <<url_file_ref, url_worktree_id, url_done, url_out>>

marksVars == <<code_text, code_token_links, marks_done, marks>>

inlVars == <<inl_node, inl_done, inl_paragraph, inl_text>>

docVars == <<doc_children, doc_done, doc_blocks, doc_refs>>

prefixVars == <<lp_ix, lp_ordered, lp_depth, lp_done, lp_out>>

vars == <<runVars, ptVars, selVars, splitVars, tokVars, paintVars,
         encVars,
         urlVars,
         marksVars,
         inlVars,
         docVars,
         prefixVars>>

\* Option::None
None == "None"

(***************************************************************************)
(* Bounds of the model.                                                    *)
(***************************************************************************)
MaxLen == 3
MaxHighlights == 2
MaxCodeRanges == 2
\* Pixel coordinates of the geometry checks: 0..MaxX across, 0..MaxY down.
MaxX == 3
MaxY == 4
MaxLineHeight == 2
MaxCharWidth == 2
\* The text of layout_selections has at most MaxBytes bytes; the line height
\* there is 2 * HalfLineHeight, so that Pixels::half() of it is exact.
MaxBytes == 3
HalfLineHeight == 1
\* The number of chars of the text that is split, and of the token parsed.
MaxSplitChars == 4
MaxTokenChars == 5
\* The number of bytes of the value that is percent-encoded.
MaxEncBytes == 2
\* The number of chars of the path of the FileRef a URL is built from.
MaxPathChars == 3
\* The number of whitespace-delimited words of the inline code.
MaxWords == 2
\* The number of children of an inline node.
MaxChildren == 2
\* The number of top-level nodes of an AST.
MaxBlocks == 2
\* The index of a list item and the depth of its list.
MaxIx == 53
MaxDepth == 5
\* The painted element has at most MaxLinks links.
MaxLinks == 2

\* The highlight styles that can be told apart.
Styles == {"s1", "s2"}

(***************************************************************************)
(* The idle value of each group of variables.                              *)
(***************************************************************************)
RunIdle ==
    /\ text_len = 0
    /\ highlights = <<>>
    /\ code_ranges = <<>>
    /\ inline_code_style = FALSE
    /\ runs = <<>>
    /\ layout_done = FALSE

Origin == [x |-> 0, y |-> 0]
EmptyBounds == [left |-> 0, top |-> 0, right |-> 0, bottom |-> 0]

PtIdle ==
    /\ pt_pos = Origin
    /\ pt_char_width = 0
    /\ pt_bounds = EmptyBounds
    /\ pt_line_height = 0
    /\ pt_called = FALSE
    /\ pt_result = FALSE

\* Option<Point<Pixels>>::None and Option<Selection>::None
NonePos == [x |-> -1, y |-> -1]
NoneSelection == [start |-> -1, end |-> -1]

\* text_view_state() is None
NoTextView == [present |-> FALSE, is_selectable |-> FALSE, has_selection |-> FALSE,
               selection_bounds |-> EmptyBounds]

SelIdle ==
    /\ sel_chars = <<>>
    /\ sel_layout = <<>>
    /\ text_view_state = NoTextView
    /\ sel_line_height = 0
    /\ sel_done = FALSE
    /\ sel_result = [is_selectable |-> FALSE, is_selection |-> FALSE, selection |-> NoneSelection]

SplitIdle ==
    /\ split_text = <<>>
    /\ split_done = FALSE
    /\ split_ranges = <<>>

\* Option<u32>::None; a u32 is modelled by its decimal digits without
\* leading zeros, so that the empty sequence is free to stand for None.
NoneNum == <<>>

\* Option<FileRef>::None
NoneFileRef == [some |-> FALSE, path |-> <<>>, line |-> NoneNum, col |-> NoneNum]

TokIdle ==
    /\ raw = <<>>
    /\ parse_done = FALSE
    /\ file_ref = NoneFileRef

\* Option<usize>::None
NoneIdx == -1

\* A mouse position outside the bounds of the element.
Outside == [in_bounds |-> FALSE, index |-> NoneIdx]

PaintIdle ==
    /\ links = <<>>
    /\ state_hovered_index = NoneIdx
    /\ state_selection = NoneSelection
    /\ mouse_position = Outside
    /\ modifiers_secondary = FALSE
    /\ painted = FALSE
    /\ cursor_style = "Default"
    /\ hovered_index = NoneIdx
    /\ mouse_up_registered = FALSE
    /\ last_step = "None"
    /\ opened_urls = <<>>
    /\ propagation_stopped = FALSE
    /\ notified = FALSE

EncIdle ==
    /\ enc_value = <<>>
    /\ enc_done = FALSE
    /\ enc_out = <<>>

\* Option<String>: [some |-> FALSE] is None
NoneStr == [some |-> FALSE, str |-> <<>>]
SomeStr(str) == [some |-> TRUE, str |-> str]

UrlIdle ==
    /\ url_file_ref = NoneFileRef
    /\ url_worktree_id = NoneStr
    /\ url_done = FALSE
    /\ url_out = NoneStr

\* CodeTokenLinks::default()
DefaultCodeTokenLinks == [enabled |-> FALSE, worktree_id |-> NoneStr]

MarksIdle ==
    /\ code_text = <<>>
    /\ code_token_links = DefaultCodeTokenLinks
    /\ marks_done = FALSE
    /\ marks = <<>>

\* No node, and Paragraph::default()
NoNode == [kind |-> "None"]
EmptyParagraph == [children |-> <<>>, text |-> <<>>]

InlIdle ==
    /\ inl_node = NoNode
    /\ inl_done = FALSE
    /\ inl_paragraph = EmptyParagraph
    /\ inl_text = <<>>

DocIdle ==
    /\ doc_children = <<>>
    /\ doc_done = FALSE
    /\ doc_blocks = <<>>
    /\ doc_refs = <<>>

PrefixIdle ==
    /\ lp_ix = 0
    /\ lp_ordered = FALSE
    /\ lp_depth = 0
    /\ lp_done = FALSE
    /\ lp_out = <<>>

(***************************************************************************)
(* Helpers on sequences.                                                   *)
(***************************************************************************)
RECURSIVE SumLen(_)
SumLen(rs) == IF rs = <<>> THEN 0 ELSE Head(rs).len + SumLen(Tail(rs))

\* The elements of a finite set of integers in increasing order:
\* Vec::sort_unstable followed by Vec::dedup.
RECURSIVE SortedDedup(_)
SortedDedup(S) ==
    IF S = {} THEN <<>>
    ELSE LET m == CHOOSE x \in S : \A y \in S : x <= y
         IN  <<m>> \o SortedDedup(S \ {m})

\* Range<usize>::len(): 0 for an empty or reversed range.
RangeLen(r) == IF r.start < r.end THEN r.end - r.start ELSE 0

\* TextStyle::to_run(len), with what was applied to the style before.
Run(n, h, c) == [len |-> n, highlight |-> h, is_code |-> c]

(***************************************************************************)
(* Inline::request_layout, the path without code ranges (lines 381-394).   *)
(***************************************************************************)
RECURSIVE PlainRunsFrom(_, _, _, _)
PlainRunsFrom(hl, i, ix, acc) ==
    IF i > Len(hl)
    THEN [runs |-> acc, ix |-> ix]
    ELSE LET r   == hl[i]
             gap == IF ix < r.start THEN <<Run(r.start - ix, None, FALSE)>> ELSE <<>>
         IN  PlainRunsFrom(hl, i + 1, r.end,
                           acc \o gap \o <<Run(RangeLen(r), r.style, FALSE)>>)

\* The loop without the run for the text after the last highlight.
PlainRunsNoTail(L, hl) == PlainRunsFrom(hl, 1, 0, <<>>).runs

PlainRuns(L, hl) ==
    LET res == PlainRunsFrom(hl, 1, 0, <<>>)
    IN  IF res.ix < L
        THEN res.runs \o <<Run(L - res.ix, None, FALSE)>>
        ELSE res.runs

(***************************************************************************)
(* Inline::request_layout, the breakpoint path (lines 396-474).            *)
(***************************************************************************)
Breakpoints(L, hl, cr) ==
    SortedDedup({0, L}
                \cup {hl[i].start : i \in 1..Len(hl)} \cup {hl[i].end : i \in 1..Len(hl)}
                \cup {cr[i].start : i \in 1..Len(cr)} \cup {cr[i].end : i \in 1..Len(cr)})

\* while index < ranges.len() && ranges[index].end <= start { index += 1 }
\* (indices are 1-based here)
RECURSIVE AdvanceIndex(_, _, _)
AdvanceIndex(ranges, index, start) ==
    IF index <= Len(ranges) /\ ranges[index].end <= start
    THEN AdvanceIndex(ranges, index + 1, start)
    ELSE index

\* A containment test that forgets the range's start.
CoversAtEndOnly(ranges, index, start, end) ==
    /\ index <= Len(ranges)
    /\ ranges[index].end >= end

\* index < ranges.len() && range.start <= start && range.end >= end, for the
\* range under the cursor (lines 431-440 and 448-453).
CoversAt(ranges, index, start, end) ==
    /\ index <= Len(ranges)
    /\ ranges[index].start <= start
    /\ ranges[index].end >= end

RECURSIVE BreakpointRunsFrom(_, _, _, _, _, _)
BreakpointRunsFrom(bp, k, hl, hi, cr, ci) ==
    IF k + 1 > Len(bp)
    THEN <<>>
    ELSE LET start == bp[k]
             end   == bp[k + 1]
         IN  IF start = end
             THEN BreakpointRunsFrom(bp, k + 1, hl, hi, cr, ci)
             ELSE LET hi2 == AdvanceIndex(hl, hi, start)
                      ci2 == AdvanceIndex(cr, ci, start)
                      highlight == IF CoversAt(hl, hi2, start, end)
                                   THEN hl[hi2].style ELSE None
                      is_code   == CoversAt(cr, ci2, start, end)
                  IN  <<Run(end - start, highlight, is_code)>>
                      \o BreakpointRunsFrom(bp, k + 1, hl, hi2, cr, ci2)

BreakpointRuns(L, hl, cr) ==
    BreakpointRunsFrom(Breakpoints(L, hl, cr), 1, hl, 1, cr, 1)

\* The condition of line 381.
NoCodePath(cr, style) == cr = <<>> \/ ~style

RequestLayoutRuns(L, hl, cr, style) ==
    IF NoCodePath(cr, style) THEN PlainRuns(L, hl) ELSE BreakpointRuns(L, hl, cr)

(***************************************************************************)
(* The inputs of Inline::new: ranges within the text, sorted and mutually  *)
(* non-overlapping (an empty range start = end is allowed).                *)
(***************************************************************************)
Ranges(L) == {[start |-> a, end |-> b] : a \in 0..L, b \in 0..L}

ValidRanges(L) == {r \in Ranges(L) : r.start <= r.end}

SortedDisjoint(s) == \A i \in 1..(Len(s) - 1) : s[i].end <= s[i + 1].start

RangeSeqs(L, n) ==
    UNION {{s \in [1..k -> ValidRanges(L)] : SortedDisjoint(s)} : k \in 0..n}

HighlightSeqs(L, n) ==
    UNION {{[i \in 1..Len(s) |-> [start |-> s[i].start, end |-> s[i].end, style |-> st[i]]] :
                st \in [1..Len(s) -> Styles]} : s \in RangeSeqs(L, n)}

RunInit ==
    /\ PtIdle
    /\ SelIdle
    /\ SplitIdle
    /\ TokIdle
    /\ PaintIdle
    /\ EncIdle
    /\ UrlIdle
    /\ MarksIdle
    /\ InlIdle
    /\ DocIdle
    /\ PrefixIdle
    /\ text_len \in 0..MaxLen
    /\ highlights \in HighlightSeqs(text_len, MaxHighlights)
    /\ code_ranges \in RangeSeqs(text_len, MaxCodeRanges)
    /\ inline_code_style \in BOOLEAN
    /\ runs = <<>>
    /\ layout_done = FALSE

RequestLayout ==
    /\ ~layout_done
    /\ runs' = RequestLayoutRuns(text_len, highlights, code_ranges, inline_code_style)
    /\ layout_done' = TRUE
    /\ UNCHANGED <<text_len, highlights, code_ranges, inline_code_style>>
    /\ UNCHANGED <<ptVars, selVars, splitVars, tokVars, paintVars, encVars, urlVars, marksVars, inlVars, docVars, prefixVars>>

RunNext == RequestLayout

SpecRuns == RunInit /\ [][RunNext]_vars

(***************************************************************************)
(* Claims about the run segmentation.                                      *)
(***************************************************************************)
\* The offset at which run k starts: the lengths of the runs before it.
RunStart(k) == SumLen(SubSeq(runs, 1, k - 1))
RunEnd(k) == RunStart(k) + runs[k].len

OnBreakpointPath == layout_done /\ ~NoCodePath(code_ranges, inline_code_style)

\* C1: on both paths of request_layout the runs, taken in order, partition
\* [0, L): their lengths sum to L and every offset below L lies in exactly
\* one run.
C1_RunsPartition ==
    layout_done =>
        /\ SumLen(runs) = text_len
        /\ \A k \in 1..Len(runs) : runs[k].len >= 0
        /\ \A p \in 0..(text_len - 1) :
               Cardinality({k \in 1..Len(runs) : RunStart(k) <= p /\ p < RunEnd(k)}) = 1

C1_Witness ==
    /\ OnBreakpointPath
    /\ highlights # <<>>
    /\ Len(runs) >= 3
    /\ text_len = MaxLen

\* [a, b) lies within range r
Within(a, b, r) == r.start <= a /\ b <= r.end

\* C2: on the breakpoint path a run [a, b) carries a highlight iff [a, b) is
\* contained in some highlight range, and then that range's style; it
\* carries the inline-code overrides iff [a, b) is contained in some code
\* range.
C2_RunStyles ==
    OnBreakpointPath =>
        \A k \in 1..Len(runs) :
            LET a == RunStart(k)
                b == RunEnd(k)
            IN  /\ (runs[k].highlight # None) <=>
                       (\E i \in 1..Len(highlights) : Within(a, b, highlights[i]))
                /\ \A i \in 1..Len(highlights) :
                       Within(a, b, highlights[i]) => runs[k].highlight = highlights[i].style
                /\ runs[k].is_code <=>
                       (\E i \in 1..Len(code_ranges) : Within(a, b, code_ranges[i]))

C2_Witness ==
    /\ OnBreakpointPath
    /\ \E k \in 1..Len(runs) : runs[k].highlight # None /\ ~runs[k].is_code
    /\ \E k \in 1..Len(runs) : runs[k].is_code
    /\ \E k \in 1..Len(runs) : runs[k].highlight = None /\ ~runs[k].is_code

\* The effective style of a run: its highlight, or none, and whether it
\* carries the inline-code overrides.
SameStyle(r1, r2) == r1.highlight = r2.highlight /\ r1.is_code = r2.is_code

\* C21: the run list of request_layout is minimal: no two adjacent runs
\* have the same effective style.
C21_RunsMinimal ==
    layout_done =>
        \A k \in 1..(Len(runs) - 1) : ~SameStyle(runs[k], runs[k + 1])

\* C22: every run of request_layout has a length above zero, on the path
\* without code ranges and on the breakpoint path, also when a highlight
\* or a code range of the input is empty.
C22_RunsNotEmpty ==
    layout_done => \A k \in 1..Len(runs) : runs[k].len > 0

(***************************************************************************)
(* point_in_text_selection (lines 591-623).  Pixels are modelled as        *)
(* integers; Pixels::half() is kept exact by comparing doubled values:     *)
(* pos.x + char_width.half() >= left  iff  2 * pos.x + char_width >= 2 * left. *)
(***************************************************************************)
\* twice the horizontal midpoint pos.x + char_width.half()
Mid2(pos, char_width) == 2 * pos.x + char_width

\* The function with the single-line rule applied to bounds of every height.
point_in_text_selection_single(pos, char_width, bounds, line_height) ==
    IF pos.y + line_height < bounds.top \/ pos.y >= bounds.bottom
    THEN FALSE
    ELSE /\ Mid2(pos, char_width) >= 2 * bounds.left
         /\ Mid2(pos, char_width) <= 2 * bounds.right

point_in_text_selection(pos, char_width, bounds, line_height) ==
    LET top    == bounds.top
        bottom == bounds.bottom
        left   == bounds.left
        right  == bounds.right
    IN  IF pos.y + line_height < top \/ pos.y >= bottom
        THEN FALSE
        ELSE LET single_line == (bottom - top) <= line_height
                 is_above    == pos.y <= top
                 is_below    == pos.y + line_height >= bottom
             IN  IF single_line
                 THEN /\ Mid2(pos, char_width) >= 2 * left
                      /\ Mid2(pos, char_width) <= 2 * right
                 ELSE IF is_above
                 THEN Mid2(pos, char_width) >= 2 * left
                 ELSE IF is_below
                 THEN Mid2(pos, char_width) <= 2 * right
                 ELSE TRUE

\* Bounds<Pixels> with a size that is not negative.
BoundsSet ==
    {[left |-> l, top |-> t, right |-> r, bottom |-> b] :
        l \in 0..MaxX, r \in 0..MaxX, t \in 0..MaxY, b \in 0..MaxY}

PtInit ==
    /\ RunIdle
    /\ SelIdle
    /\ SplitIdle
    /\ TokIdle
    /\ PaintIdle
    /\ EncIdle
    /\ UrlIdle
    /\ MarksIdle
    /\ InlIdle
    /\ DocIdle
    /\ PrefixIdle
    /\ pt_pos \in {[x |-> x, y |-> y] : x \in 0..MaxX, y \in 0..MaxY}
    /\ pt_char_width \in 0..MaxCharWidth
    /\ pt_bounds \in {b \in BoundsSet : b.left <= b.right /\ b.top <= b.bottom}
    /\ pt_line_height \in 1..MaxLineHeight
    /\ pt_called = FALSE
    /\ pt_result = FALSE

CallPointInTextSelection ==
    /\ ~pt_called
    /\ pt_called' = TRUE
    /\ pt_result' = point_in_text_selection(pt_pos, pt_char_width, pt_bounds, pt_line_height)
    /\ UNCHANGED <<pt_pos, pt_char_width, pt_bounds, pt_line_height>>
    /\ UNCHANGED <<runVars, selVars, splitVars, tokVars, paintVars, encVars, urlVars, marksVars, inlVars, docVars, prefixVars>>

PtNext == CallPointInTextSelection

SpecPoint == PtInit /\ [][PtNext]_vars

(***************************************************************************)
(* Claims about point_in_text_selection.                                   *)
(***************************************************************************)
PtHeight == pt_bounds.bottom - pt_bounds.top
PtMid2 == 2 * pt_pos.x + pt_char_width

\* The character's vertical span [pos.y, pos.y + line_height) and the
\* half-open interval [bounds.top, bounds.bottom) have a point in common.
PtSpanOverlaps ==
    /\ pt_pos.y < pt_bounds.bottom
    /\ pt_bounds.top < pt_pos.y + pt_line_height

\* C5: point_in_text_selection returns false for every character whose
\* vertical span [pos.y, pos.y + line_height) does not overlap
\* [bounds.top, bounds.bottom); stated here for bounds of positive height.
C5_VerticalRejection ==
    (pt_called /\ pt_bounds.top < pt_bounds.bottom /\ ~PtSpanOverlaps)
        => pt_result = FALSE

\* The function's own vertical check (line 603) lets the character through.
PtPassesVertical ==
    ~(pt_pos.y + pt_line_height < pt_bounds.top \/ pt_pos.y >= pt_bounds.bottom)

\* The row of the character holds the top edge / the bottom edge of the
\* bounds / lies strictly between the two edges.
PtOnFirstRow == pt_pos.y <= pt_bounds.top /\ pt_bounds.top < pt_pos.y + pt_line_height
PtOnLastRow == pt_pos.y < pt_bounds.bottom /\ pt_bounds.bottom <= pt_pos.y + pt_line_height
PtOnInteriorRow == pt_bounds.top < pt_pos.y /\ pt_pos.y + pt_line_height < pt_bounds.bottom

\* C6: for a character that passes the vertical check, single-line bounds
\* (height <= line_height) include it iff its midpoint lies in
\* [left, right]; taller bounds include a character of the first row iff
\* its midpoint is >= left, one of the last row iff its midpoint is
\* <= right, and one of an interior row always.
C6_HorizontalRule ==
    (pt_called /\ PtPassesVertical) =>
        /\ PtHeight <= pt_line_height =>
               (pt_result <=> (PtMid2 >= 2 * pt_bounds.left /\ PtMid2 <= 2 * pt_bounds.right))
        /\ (PtHeight > pt_line_height /\ PtOnFirstRow) =>
               (pt_result <=> PtMid2 >= 2 * pt_bounds.left)
        /\ (PtHeight > pt_line_height /\ PtOnLastRow) =>
               (pt_result <=> PtMid2 <= 2 * pt_bounds.right)
        /\ (PtHeight > pt_line_height /\ PtOnInteriorRow) => pt_result = TRUE

\* A character of the first row, right of bounds.right, is selected.
C6_Witness ==
    /\ pt_called
    /\ pt_result = TRUE
    /\ PtHeight > pt_line_height
    /\ PtOnFirstRow
    /\ PtMid2 > 2 * pt_bounds.right

(***************************************************************************)
(* Inline::layout_selections (lines 103-154).  The text is the sequence of *)
(* the UTF-8 lengths of its chars; the layout gives, for every byte index  *)
(* 0..text.len(), the position TextLayout::position_for_index returns, or  *)
(* NonePos.                                                                *)
(***************************************************************************)
RECURSIVE SumSeq(_)
SumSeq(q) == IF q = <<>> THEN 0 ELSE Head(q) + SumSeq(Tail(q))

\* Pixels::half() of an even number of pixels
Half(p) == p \div 2

\* lines 134-139: the width of the char at `offset`
CharWidth(layout, offset, line_height) ==
    LET pos      == layout[offset]
        next_pos == layout[offset + 1]
    IN  IF next_pos # NonePos /\ next_pos.y = pos.y
        THEN next_pos.x - pos.x
        ELSE Half(line_height)

\* The update of the running selection that moves its start every time.
ExtendSelectionRestart(selection, offset, next_offset) ==
    [start |-> offset, end |-> next_offset]

\* lines 142-147: the update of the running selection by a qualifying char
ExtendSelection(selection, offset, next_offset) ==
    [start |-> IF selection = NoneSelection THEN offset ELSE selection.start,
     end   |-> next_offset]

\* lines 128-151: the loop over self.text.chars(), from char k at `offset`
RECURSIVE SelectionLoop(_, _, _, _, _, _, _)
SelectionLoop(chars, k, offset, selection, layout, bounds, line_height) ==
    IF k > Len(chars)
    THEN selection
    ELSE LET len_utf8 == chars[k]
             pos      == layout[offset]
         IN  IF pos = NonePos
             THEN SelectionLoop(chars, k + 1, offset + len_utf8, selection,
                                layout, bounds, line_height)
             ELSE LET char_width == CharWidth(layout, offset, line_height)
                      selected   == point_in_text_selection(pos, char_width, bounds, line_height)
                      selection2 == IF selected
                                    THEN ExtendSelection(selection, offset, offset + len_utf8)
                                    ELSE selection
                  IN  SelectionLoop(chars, k + 1, offset + len_utf8, selection2,
                                    layout, bounds, line_height)

layout_selections(chars, layout, tv, line_height) ==
    IF ~tv.present
    THEN [is_selectable |-> FALSE, is_selection |-> FALSE, selection |-> NoneSelection]
    ELSE IF ~tv.has_selection
    THEN [is_selectable |-> tv.is_selectable, is_selection |-> FALSE,
          selection |-> NoneSelection]
    ELSE [is_selectable |-> TRUE, is_selection |-> TRUE,
          selection |-> SelectionLoop(chars, 1, 0, NoneSelection, layout,
                                      tv.selection_bounds, line_height)]

\* The UTF-8 lengths of a char of the text.
CharLens == 1..2

Texts(n) ==
    UNION {{q \in [1..k -> CharLens] : SumSeq(q) <= n} : k \in 0..n}

\* The places a glyph can be at: columns 0..2 of the rows 0 and 1.
PosGrid(line_height) == {[x |-> x, y |-> r * line_height] : x \in 0..2, r \in 0..1}

\* Positions follow the reading order: a later index is not before an
\* earlier one.
ReadingOrder(f) ==
    \A a \in DOMAIN f : \A b \in DOMAIN f :
        (a < b /\ f[a] # NonePos /\ f[b] # NonePos) =>
            \/ f[a].y < f[b].y
            \/ f[a].y = f[b].y /\ f[a].x <= f[b].x

Layouts(L, line_height) ==
    {f \in [0..L -> PosGrid(line_height) \cup {NonePos}] : ReadingOrder(f)}

\* Selection bounds: edges on columns 0..2 and on the row edges 0..2.
SelBoundsSet(line_height) ==
    {b \in {[left |-> l, top |-> t * line_height, right |-> r, bottom |-> u * line_height] :
                l \in 0..2, r \in 0..2, t \in 0..2, u \in 0..2} :
        b.left <= b.right /\ b.top <= b.bottom}

\* The text view states: none, or one with or without a selection; without
\* a selection its bounds are the default ones.
TextViewStates(line_height) ==
    {NoTextView}
    \cup {[present |-> TRUE, is_selectable |-> s, has_selection |-> FALSE,
           selection_bounds |-> EmptyBounds] : s \in BOOLEAN}
    \cup {[present |-> TRUE, is_selectable |-> s, has_selection |-> TRUE,
           selection_bounds |-> b] : s \in BOOLEAN, b \in SelBoundsSet(line_height)}

SelInit ==
    /\ RunIdle
    /\ PtIdle
    /\ SplitIdle
    /\ TokIdle
    /\ PaintIdle
    /\ EncIdle
    /\ UrlIdle
    /\ MarksIdle
    /\ InlIdle
    /\ DocIdle
    /\ PrefixIdle
    /\ sel_line_height = 2 * HalfLineHeight
    /\ sel_chars \in Texts(MaxBytes)
    /\ sel_layout \in Layouts(SumSeq(sel_chars), sel_line_height)
    /\ text_view_state \in TextViewStates(sel_line_height)
    /\ sel_done = FALSE
    /\ sel_result = [is_selectable |-> FALSE, is_selection |-> FALSE, selection |-> NoneSelection]

LayoutSelections ==
    /\ ~sel_done
    /\ sel_done' = TRUE
    /\ sel_result' = layout_selections(sel_chars, sel_layout, text_view_state, sel_line_height)
    /\ UNCHANGED <<sel_chars, sel_layout, text_view_state, sel_line_height>>
    /\ UNCHANGED <<runVars, ptVars, splitVars, tokVars, paintVars, encVars, urlVars, marksVars, inlVars, docVars, prefixVars>>

SelNext == LayoutSelections

SpecSel == SelInit /\ [][SelNext]_vars

(***************************************************************************)
(* Claims about layout_selections.                                         *)
(***************************************************************************)
SelCount == Len(sel_chars)

\* The byte offset of char k (1-based); Off(SelCount + 1) is text.len().
Off(k) == SumSeq(SubSeq(sel_chars, 1, k - 1))

SelBounds == text_view_state.selection_bounds

SelRan == sel_done /\ text_view_state.present /\ text_view_state.has_selection

\* Char k has a position and point_in_text_selection accepts it.
Qualifies(k) ==
    /\ sel_layout[Off(k)] # NonePos
    /\ point_in_text_selection(sel_layout[Off(k)],
                               CharWidth(sel_layout, Off(k), sel_line_height),
                               SelBounds, sel_line_height)

QualifyingChars == {k \in 1..SelCount : Qualifies(k)}

\* C4: with a text-view selection, layout_selections returns no range when
\* no char qualifies, and otherwise the range from the byte offset of the
\* first qualifying char to the end offset of the last one; a char without
\* a position is skipped, its bytes still counted.
C4_SelectionRange ==
    SelRan =>
        IF QualifyingChars = {}
        THEN sel_result.selection = NoneSelection
        ELSE LET first == CHOOSE k \in QualifyingChars : \A m \in QualifyingChars : k <= m
                 last  == CHOOSE k \in QualifyingChars : \A m \in QualifyingChars : m <= k
             IN  sel_result.selection =
                     [start |-> Off(first), end |-> Off(last) + sel_chars[last]]

\* Two chars qualify and a char without a position lies between them.
C4_Witness ==
    /\ SelRan
    /\ Cardinality(QualifyingChars) >= 2
    /\ \E k \in 1..SelCount :
           /\ sel_layout[Off(k)] = NonePos
           /\ sel_result.selection.start < Off(k)
           /\ Off(k) < sel_result.selection.end

\* The text is laid out on visual rows: every char boundary has a position,
\* every char is one byte long, and along a row x grows from char to char.
LaidOutOnRows ==
    /\ \A k \in 1..(SelCount + 1) : sel_layout[Off(k)] # NonePos
    /\ \A k \in 1..SelCount : sel_chars[k] = 1
    /\ \A k \in 1..SelCount :
           sel_layout[Off(k)].y = sel_layout[Off(k + 1)].y =>
               sel_layout[Off(k)].x < sel_layout[Off(k + 1)].x

\* The bounds are exactly the pixel extent of the chars [i, j) of one row.
ExactExtent(i, j) ==
    /\ i < j
    /\ \A k \in i..j : sel_layout[Off(k)].y = sel_layout[Off(i)].y
    /\ SelBounds.left = sel_layout[Off(i)].x
    /\ SelBounds.right = sel_layout[Off(j)].x
    /\ SelBounds.top = sel_layout[Off(i)].y
    /\ SelBounds.bottom = sel_layout[Off(i)].y + sel_line_height

\* C7: for single-line bounds that exactly match the pixel extent of the
\* chars [i, j) of one row, the computed range is [i, j) up to one char at
\* each end, and holds no char of another row.
C7_RoundTrip ==
    (SelRan /\ LaidOutOnRows) =>
        \A i \in 1..SelCount : \A j \in 1..(SelCount + 1) :
            ExactExtent(i, j) =>
                /\ sel_result.selection # NoneSelection
                /\ sel_result.selection.start \in {Off(i) - 1, Off(i), Off(i) + 1}
                /\ sel_result.selection.end \in {Off(j) - 1, Off(j), Off(j) + 1}
                /\ \A k \in 1..SelCount :
                       (sel_result.selection.start <= Off(k) /\ Off(k) < sel_result.selection.end)
                           => sel_layout[Off(k)].y = sel_layout[Off(i)].y

\* The width the claim gives char k: the distance to the position at the
\* byte offset of the next char when that is on the same row, else half the
\* line height.
WidthToNextChar(k) ==
    LET pos      == sel_layout[Off(k)]
        next_pos == sel_layout[Off(k + 1)]
    IN  IF next_pos # NonePos /\ next_pos.y = pos.y
        THEN next_pos.x - pos.x
        ELSE Half(sel_line_height)

\* C24: the width layout_selections uses for the char at byte offset o is
\* the horizontal distance to the position of the next char, the one at
\* o + its UTF-8 length, when both are on the same visual line, and half
\* the line height otherwise, for chars of every byte length.
C24_CharWidth ==
    SelRan =>
        \A k \in 1..SelCount :
            sel_layout[Off(k)] # NonePos =>
                CharWidth(sel_layout, Off(k), sel_line_height) = WidthToNextChar(k)

(***************************************************************************)
(* split_whitespace_token_ranges (utils.rs, lines 45-61).  A text is the   *)
(* sequence of its chars; ranges are in bytes, as text.char_indices()      *)
(* counts them.                                                            *)
(***************************************************************************)
\* The chars of the texts that are split: a letter, a space, a two-byte
\* letter (U+00E9) and a three-byte space (U+3000).
SplitChars == {"a", " ", "e2", "sp3"}

\* char::len_utf8
LenUtf8(ch) == CASE ch = "e2" -> 2 [] ch = "é" -> 2 [] ch = "sp3" -> 3 [] OTHER -> 1

\* char::is_whitespace
IsWhitespace(ch) == ch \in {" ", "sp3"}

\* text.len(), in bytes
RECURSIVE ByteLen(_)
ByteLen(text) == IF text = <<>> THEN 0 ELSE LenUtf8(Head(text)) + ByteLen(Tail(text))

\* lines 48-56: the loop over text.char_indices(), from char k at byte idx
RECURSIVE SplitLoop(_, _, _, _, _)
SplitLoop(text, k, idx, start, ranges) ==
    IF k > Len(text)
    THEN [start |-> start, ranges |-> ranges]
    ELSE LET ch   == text[k]
             next == idx + LenUtf8(ch)
         IN  IF IsWhitespace(ch)
             THEN IF start # NoneIdx
                  THEN SplitLoop(text, k + 1, next, NoneIdx,
                                 Append(ranges, [start |-> start, end |-> idx]))
                  ELSE SplitLoop(text, k + 1, next, start, ranges)
             ELSE IF start = NoneIdx
                  THEN SplitLoop(text, k + 1, next, idx, ranges)
                  ELSE SplitLoop(text, k + 1, next, start, ranges)

\* The function without the push of the token that ends the text.
split_whitespace_token_ranges_open(text) ==
    SplitLoop(text, 1, 0, NoneIdx, <<>>).ranges

split_whitespace_token_ranges(text) ==
    LET res == SplitLoop(text, 1, 0, NoneIdx, <<>>)
    IN  IF res.start # NoneIdx
        THEN Append(res.ranges, [start |-> res.start, end |-> ByteLen(text)])
        ELSE res.ranges

SeqsUpTo(S, n) == UNION {[1..k -> S] : k \in 0..n}

SplitInit ==
    /\ RunIdle
    /\ PtIdle
    /\ SelIdle
    /\ TokIdle
    /\ PaintIdle
    /\ EncIdle
    /\ UrlIdle
    /\ MarksIdle
    /\ InlIdle
    /\ DocIdle
    /\ PrefixIdle
    /\ split_text \in SeqsUpTo(SplitChars, MaxSplitChars)
    /\ split_done = FALSE
    /\ split_ranges = <<>>

SplitTokens ==
    /\ ~split_done
    /\ split_done' = TRUE
    /\ split_ranges' = split_whitespace_token_ranges(split_text)
    /\ UNCHANGED split_text
    /\ UNCHANGED <<runVars, ptVars, selVars, tokVars, paintVars, encVars, urlVars, marksVars, inlVars, docVars, prefixVars>>

SplitNext == SplitTokens

SpecSplit == SplitInit /\ [][SplitNext]_vars

(***************************************************************************)
(* Claims about split_whitespace_token_ranges.                             *)
(***************************************************************************)
\* The byte offset of char k of split_text; ByteAt(Len + 1) is text.len().
ByteAt(k) == ByteLen(SubSeq(split_text, 1, k - 1))

\* The chars i..j-1 are a maximal run of non-whitespace chars.
MaximalRun(i, j) ==
    /\ i < j
    /\ \A k \in i..(j - 1) : ~IsWhitespace(split_text[k])
    /\ i = 1 \/ IsWhitespace(split_text[i - 1])
    /\ j = Len(split_text) + 1 \/ IsWhitespace(split_text[j])

MaximalRunRanges ==
    {[start |-> ByteAt(i), end |-> ByteAt(j)] :
        <<i, j>> \in {p \in (1..Len(split_text)) \X (1..(Len(split_text) + 1)) :
                        MaximalRun(p[1], p[2])}}

\* C8: the ranges returned are exactly the maximal runs of non-whitespace
\* chars, left to right: non-empty, strictly increasing, without whitespace
\* inside and with only whitespace outside; none for the empty string.
C8_MaximalTokens ==
    split_done =>
        /\ {split_ranges[n] : n \in 1..Len(split_ranges)} = MaximalRunRanges
        /\ \A n \in 1..Len(split_ranges) : split_ranges[n].start < split_ranges[n].end
        /\ \A n \in 1..(Len(split_ranges) - 1) :
               split_ranges[n].end < split_ranges[n + 1].start
        /\ \A k \in 1..Len(split_text) :
               IsWhitespace(split_text[k]) <=>
                   ~(\E n \in 1..Len(split_ranges) :
                        split_ranges[n].start <= ByteAt(k) /\ ByteAt(k) < split_ranges[n].end)
        /\ split_text = <<>> => split_ranges = <<>>

\* Two tokens, a multi-byte char, and a token that ends the text.
C8_Witness ==
    /\ split_done
    /\ Len(split_ranges) = 2
    /\ \E k \in 1..Len(split_text) : LenUtf8(split_text[k]) > 1
    /\ split_ranges[2].end = ByteLen(split_text)

(***************************************************************************)
(* parse_file_ref_token and its helpers (utils.rs, lines 63-168).  A token *)
(* is the sequence of its chars, all ASCII, so that byte and char indices  *)
(* agree; indices are 1-based here.                                        *)
(***************************************************************************)
AsciiDigits == {"0", "1", "2", "3", "4", "5", "6", "7", "8", "9"}

AsciiLetters ==
    {"a", "b", "c", "d", "e", "f", "g", "h", "i", "j", "k", "l", "m",
     "n", "o", "p", "q", "r", "s", "t", "u", "v", "w", "x", "y", "z",
     "A", "B", "C", "D", "E", "F", "G", "H", "I", "J", "K", "L", "M",
     "N", "O", "P", "Q", "R", "S", "T", "U", "V", "W", "X", "Y", "Z"}

\* str::starts_with
StartsWith(str, pat) == Len(str) >= Len(pat) /\ SubSeq(str, 1, Len(pat)) = pat

\* pat occurs in str at index i
OccursAt(str, pat, i) ==
    i + Len(pat) - 1 <= Len(str) /\ SubSeq(str, i, i + Len(pat) - 1) = pat

\* str::contains
Contains(str, pat) == \E i \in 1..Len(str) : OccursAt(str, pat, i)

\* str::find / str::rfind: the first / last index of pat, 0 for None
Find(str, pat) ==
    IF Contains(str, pat)
    THEN CHOOSE i \in 1..Len(str) :
             OccursAt(str, pat, i) /\ \A j \in 1..(i - 1) : ~OccursAt(str, pat, j)
    ELSE 0

RFind(str, pat) ==
    IF Contains(str, pat)
    THEN CHOOSE i \in 1..Len(str) :
             OccursAt(str, pat, i) /\ \A j \in (i + 1)..Len(str) : ~OccursAt(str, pat, j)
    ELSE 0

\* The parts around the separator at index i
Before(str, i) == SubSeq(str, 1, i - 1)
After(str, i, n) == SubSeq(str, i + n, Len(str))

\* lines 63-69
is_windows_drive(path) ==
    IF Len(path) < 3
    THEN FALSE
    ELSE path[1] \in AsciiLetters /\ path[2] = ":" /\ (path[3] = "/" \/ path[3] = "\\")

\* A cue check that takes every non-empty path.
has_explicit_path_cue_lenient(path) == path # <<>>

\* lines 71-91
has_explicit_path_cue(path) ==
    IF path = <<>> THEN FALSE
    ELSE IF path = <<".">> \/ path = <<".", ".">> \/ path = <<"~">> THEN TRUE
    ELSE IF Contains(path, <<":", "/", "/">>) THEN FALSE
    ELSE IF \/ StartsWith(path, <<".", "/">>)
            \/ StartsWith(path, <<".", ".", "/">>)
            \/ StartsWith(path, <<"~", "/">>) THEN TRUE
    ELSE IF StartsWith(path, <<"/">>) \/ StartsWith(path, <<"\\">>) THEN TRUE
    ELSE IF is_windows_drive(path) THEN TRUE
    ELSE Contains(path, <<"/">>) \/ Contains(path, <<"\\">>)

\* The decimal digits of a number without its leading zeros.
RECURSIVE StripZeros(_)
StripZeros(digits) ==
    IF digits # <<>> /\ Head(digits) = "0" THEN StripZeros(Tail(digits)) ELSE digits

\* The digits of u32::MAX, 4294967295.
U32MaxDigits == <<"4", "2", "9", "4", "9", "6", "7", "2", "9", "5">>

DigitValue(d) == CHOOSE n \in 0..9 : <<"0", "1", "2", "3", "4", "5", "6", "7", "8", "9">>[n + 1] = d

\* a <= b for two digit sequences of the same length
RECURSIVE DigitsLeq(_, _)
DigitsLeq(a, b) ==
    IF a = <<>> THEN TRUE
    ELSE IF Head(a) # Head(b) THEN DigitValue(Head(a)) < DigitValue(Head(b))
    ELSE DigitsLeq(Tail(a), Tail(b))

\* value.parse::<u32>().ok() of a string of digits: the number, as its
\* digits without leading zeros (<<>> is 0), or "overflow"
FitsU32(digits) ==
    \/ Len(digits) < Len(U32MaxDigits)
    \/ Len(digits) = Len(U32MaxDigits) /\ DigitsLeq(digits, U32MaxDigits)

\* lines 93-98
parse_digits(value) ==
    IF value = <<>> \/ ~(\A i \in 1..Len(value) : value[i] \in AsciiDigits)
    THEN NoneNum
    ELSE LET v == StripZeros(value)
         IN  IF ~FitsU32(v) THEN NoneNum      \* parse::<u32>() fails
             ELSE IF v = <<>> THEN NoneNum    \* filter(|v| *v > 0)
             ELSE v

SomeFileRef(path, line, col) == [some |-> TRUE, path |-> path, line |-> line, col |-> col]

\* lines 101-118: the `#L` anchor, found at index idx
AnchorSuffix(str, idx) ==
    LET path == Before(str, idx)
        rest == After(str, idx, 2)
        c    == Find(rest, <<"C">>)
        line_part == IF c # 0 THEN Before(rest, c) ELSE rest
        line == parse_digits(line_part)
        col  == IF c # 0 THEN parse_digits(After(rest, c, 1)) ELSE NoneNum
    IN  IF ~has_explicit_path_cue(path) THEN NoneFileRef
        ELSE IF line = NoneNum THEN NoneFileRef
        ELSE SomeFileRef(path, line, col)

\* lines 120-145: the last `:` found at index idx
ColonSuffix(str, idx) ==
    LET before_last == Before(str, idx)
        last_num    == parse_digits(After(str, idx, 1))
        c2          == RFind(before_last, <<":">>)
        path        == Before(before_last, c2)
        line        == IF c2 # 0 THEN parse_digits(After(before_last, c2, 1)) ELSE NoneNum
    IN  IF last_num = NoneNum THEN NoneFileRef
        ELSE IF c2 # 0 /\ line # NoneNum
        THEN IF ~has_explicit_path_cue(path) THEN NoneFileRef
             ELSE SomeFileRef(path, line, last_num)
        ELSE IF ~has_explicit_path_cue(before_last) THEN NoneFileRef
        ELSE SomeFileRef(before_last, last_num, NoneNum)

\* lines 100-148
parse_line_col_suffix(str) ==
    IF RFind(str, <<"#", "L">>) # 0
    THEN AnchorSuffix(str, RFind(str, <<"#", "L">>))
    ELSE IF RFind(str, <<":">>) # 0
    THEN ColonSuffix(str, RFind(str, <<":">>))
    ELSE NoneFileRef

\* lines 150-168
parse_file_ref_token(str) ==
    IF str = <<>> THEN NoneFileRef
    ELSE IF Contains(str, <<":", "/", "/">>) THEN NoneFileRef
    ELSE IF parse_line_col_suffix(str).some THEN parse_line_col_suffix(str)
    ELSE IF ~has_explicit_path_cue(str) THEN NoneFileRef
    ELSE SomeFileRef(str, NoneNum, NoneNum)

\* The chars of the tokens that are parsed.
TokenChars == {"/", "#", "L", "C", ":", "0", "1", "a"}

TokInit ==
    /\ RunIdle
    /\ PtIdle
    /\ SelIdle
    /\ SplitIdle
    /\ PaintIdle
    /\ EncIdle
    /\ UrlIdle
    /\ MarksIdle
    /\ InlIdle
    /\ DocIdle
    /\ PrefixIdle
    /\ raw \in SeqsUpTo(TokenChars, MaxTokenChars)
    /\ parse_done = FALSE
    /\ file_ref = NoneFileRef

ParseFileRefToken ==
    /\ ~parse_done
    /\ parse_done' = TRUE
    /\ file_ref' = parse_file_ref_token(raw)
    /\ UNCHANGED raw
    /\ UNCHANGED <<runVars, ptVars, selVars, splitVars, paintVars, encVars, urlVars, marksVars, inlVars, docVars, prefixVars>>

TokNext == ParseFileRefToken

SpecTok == TokInit /\ [][TokNext]_vars

(***************************************************************************)
(* Claims about parse_file_ref_token.                                      *)
(***************************************************************************)
\* A group of ASCII digits whose value is > 0, and that value.
IsPositiveInt(str) ==
    /\ str # <<>>
    /\ \A i \in 1..Len(str) : str[i] \in AsciiDigits
    /\ \E i \in 1..Len(str) : str[i] # "0"

ValueOf(str) == StripZeros(str)

\* <digits> or <digits>C<digits>
IsAnchorTail(str) ==
    \/ IsPositiveInt(str)
    \/ \E c \in 1..Len(str) :
           str[c] = "C" /\ IsPositiveInt(Before(str, c)) /\ IsPositiveInt(After(str, c, 1))

\* The token has the form <path>#L<digits>[C<digits>].
MatchesAnchor ==
    \E i \in 1..Len(raw) : OccursAt(raw, <<"#", "L">>, i) /\ IsAnchorTail(After(raw, i, 2))

\* The token is <path>:<line>:<col>, its colons at i and j.
ColonForm2(i, j) ==
    /\ i < j /\ raw[i] = ":" /\ raw[j] = ":"
    /\ IsPositiveInt(SubSeq(raw, i + 1, j - 1))
    /\ IsPositiveInt(After(raw, j, 1))
    /\ has_explicit_path_cue(Before(raw, i))

\* The token is <path>:<line>, its colon at i.
ColonForm1(i) ==
    /\ raw[i] = ":"
    /\ IsPositiveInt(After(raw, i, 1))
    /\ has_explicit_path_cue(Before(raw, i))

\* C9: a token without `://` that does not match <path>#L<digits>[C<digits>]
\* and has the form <path>:<line>:<col>, or else <path>:<line>, with
\* positive integers and a path that satisfies the path cue, yields the
\* FileRef with that path, line and column, also when the path holds `#L`.
C9_ColonGrammar ==
    (parse_done /\ ~Contains(raw, <<":", "/", "/">>) /\ ~MatchesAnchor) =>
        /\ \A i \in 1..Len(raw) : \A j \in 1..Len(raw) :
               ColonForm2(i, j) =>
                   file_ref = SomeFileRef(Before(raw, i),
                                          ValueOf(SubSeq(raw, i + 1, j - 1)),
                                          ValueOf(After(raw, j, 1)))
        /\ \A i \in 1..Len(raw) :
               (ColonForm1(i) /\ ~(\E a \in 1..Len(raw) : \E b \in 1..Len(raw) : ColonForm2(a, b)))
                   => file_ref = SomeFileRef(Before(raw, i), ValueOf(After(raw, i, 1)), NoneNum)

\* A present u32 that is > 0.
IsPositive(num) == num # NoneNum /\ Head(num) # "0"

\* C10: a returned FileRef carries a line taken from a `#L` anchor only when
\* the text after the last `#L` is <digits> or <digits>C<digits>, each group
\* all ASCII digits with value > 0; a present line and a present column are
\* > 0, and a column is present only with a line.
C10_AnchorGrammar ==
    (parse_done /\ file_ref.some) =>
        /\ ( /\ RFind(raw, <<"#", "L">>) # 0
             /\ file_ref.line # NoneNum
             /\ file_ref.path = Before(raw, RFind(raw, <<"#", "L">>)) )
               => IsAnchorTail(After(raw, RFind(raw, <<"#", "L">>), 2))
        /\ file_ref.line # NoneNum => IsPositive(file_ref.line)
        /\ file_ref.col # NoneNum => IsPositive(file_ref.col) /\ file_ref.line # NoneNum

(***************************************************************************)
(* parse_file_ref_token over the chars that make the path cues of          *)
(* has_explicit_path_cue (lines 71-91): dots, tildes, slashes, backslashes *)
(* and drive letters, next to the separators of the two suffix grammars.   *)
(***************************************************************************)
CueChars == {"/", "\\", ".", "~", ":", "a", "1", "#", "L"}

CueInit ==
    /\ RunIdle
    /\ PtIdle
    /\ SelIdle
    /\ SplitIdle
    /\ PaintIdle
    /\ EncIdle
    /\ UrlIdle
    /\ MarksIdle
    /\ InlIdle
    /\ DocIdle
    /\ PrefixIdle
    /\ raw \in SeqsUpTo(CueChars, MaxTokenChars)
    /\ parse_done = FALSE
    /\ file_ref = NoneFileRef

SpecCue == CueInit /\ [][TokNext]_vars

\* The explicit path cue, as the claim words it.
IsDriveLetter(ch) == ch \in AsciiLetters
ExplicitCue(path) ==
    \/ path \in {<<".">>, <<".", ".">>, <<"~">>}
    \/ \E lead \in {<<".", "/">>, <<".", ".", "/">>, <<"~", "/">>, <<"/">>, <<"\\">>} :
           StartsWith(path, lead)
    \/ /\ Len(path) >= 3
       /\ IsDriveLetter(path[1])
       /\ path[2] = ":"
       /\ path[3] \in {"/", "\\"}
    \/ \E i \in 1..Len(path) : path[i] \in {"/", "\\"}

\* A word: letters and digits only.
IsBareWord(str) == \A i \in 1..Len(str) : str[i] \in AsciiLetters \cup AsciiDigits

\* C11: a token that contains `://` gives no FileRef; the path of every
\* FileRef returned is a non-empty prefix of the token that satisfies the
\* explicit path cue; a bare word, and a word followed by `:` and a word
\* (a ratio like a:b), gives no FileRef.
C11_PathCue ==
    parse_done =>
        /\ Contains(raw, <<":", "/", "/">>) => ~file_ref.some
        /\ file_ref.some =>
               /\ file_ref.path # <<>>
               /\ StartsWith(raw, file_ref.path)
               /\ ExplicitCue(file_ref.path)
        /\ IsBareWord(raw) => ~file_ref.some
        /\ (\E i \in 1..Len(raw) :
               /\ raw[i] = ":"
               /\ IsBareWord(Before(raw, i))
               /\ IsBareWord(After(raw, i, 1))) => ~file_ref.some

\* A Windows drive path with a line suffix is accepted: a:/:1.
C11_Witness ==
    /\ parse_done
    /\ file_ref.some
    /\ file_ref.path = <<"a", ":", "/">>
    /\ file_ref.line = <<"1">>


(***************************************************************************)
(* encode_uri_component (utils.rs, lines 191-206).  The value is the       *)
(* sequence of its bytes, 0..255; the result is the sequence of its chars. *)
(***************************************************************************)
UpperChars ==
    <<"A", "B", "C", "D", "E", "F", "G", "H", "I", "J", "K", "L", "M",
      "N", "O", "P", "Q", "R", "S", "T", "U", "V", "W", "X", "Y", "Z">>
LowerChars ==
    <<"a", "b", "c", "d", "e", "f", "g", "h", "i", "j", "k", "l", "m",
      "n", "o", "p", "q", "r", "s", "t", "u", "v", "w", "x", "y", "z">>
DigitChars == <<"0", "1", "2", "3", "4", "5", "6", "7", "8", "9">>
UpperHexChars == DigitChars \o <<"A", "B", "C", "D", "E", "F">>
LowerHexChars == DigitChars \o <<"a", "b", "c", "d", "e", "f">>

\* lines 195-201: the bytes of the first match arm
IsUnreserved(b) ==
    \/ b \in 65..90            \* b'A'..=b'Z'
    \/ b \in 97..122           \* b'a'..=b'z'
    \/ b \in 48..57            \* b'0'..=b'9'
    \/ b \in {45, 95, 46, 126} \* b'-' | b'_' | b'.' | b'~'

\* line 201: *b as char, for the bytes of the first arm
AsChar(b) ==
    CASE b \in 65..90  -> UpperChars[b - 64]
      [] b \in 97..122 -> LowerChars[b - 96]
      [] b \in 48..57  -> DigitChars[b - 47]
      [] b = 45        -> "-"
      [] b = 95        -> "_"
      [] b = 46        -> "."
      [] b = 126       -> "~"

\* An escape written with lowercase hexadecimal digits: {:02x}.
EscapeLower(b) == <<"%", LowerHexChars[(b \div 16) + 1], LowerHexChars[(b % 16) + 1]>>

\* line 202: format!("%{:02X}", b)
Escape(b) == <<"%", UpperHexChars[(b \div 16) + 1], UpperHexChars[(b % 16) + 1]>>

\* lines 191-206
RECURSIVE encode_uri_component(_)
encode_uri_component(value) ==
    IF value = <<>>
    THEN <<>>
    ELSE LET b == Head(value)
         IN  (IF IsUnreserved(b) THEN <<AsChar(b)>> ELSE Escape(b))
                 \o encode_uri_component(Tail(value))

\* The bytes that are encoded: the ends of the unreserved ranges and their
\* neighbours, the four unreserved marks, and bytes of control, space,
\* percent, and non-ASCII (UTF-8 lead and continuation) kind.
EncBytes ==
    {0, 10, 32, 37, 44, 45, 46, 47, 48, 57, 58, 64, 65, 90, 91, 94, 95, 96, 97,
     122, 123, 125, 126, 127, 128, 169, 195, 255}

EncInit ==
    /\ RunIdle
    /\ PtIdle
    /\ SelIdle
    /\ SplitIdle
    /\ TokIdle
    /\ PaintIdle
    /\ UrlIdle
    /\ MarksIdle
    /\ InlIdle
    /\ DocIdle
    /\ PrefixIdle
    /\ enc_value \in SeqsUpTo(EncBytes, MaxEncBytes) \cup {<<b>> : b \in 0..255}
    /\ enc_done = FALSE
    /\ enc_out = <<>>

EncodeUriComponent ==
    /\ ~enc_done
    /\ enc_done' = TRUE
    /\ enc_out' = encode_uri_component(enc_value)
    /\ UNCHANGED enc_value
    /\ UNCHANGED <<runVars, ptVars, selVars, splitVars, tokVars, paintVars, urlVars, marksVars, inlVars, docVars, prefixVars>>

EncNext == EncodeUriComponent

SpecEnc == EncInit /\ [][EncNext]_vars

(***************************************************************************)
(* Claims about encode_uri_component.                                      *)
(***************************************************************************)
\* The unreserved characters [A-Za-z0-9-_.~] and their ASCII codes.
UnreservedChars ==
    {UpperChars[i] : i \in 1..26} \cup {LowerChars[i] : i \in 1..26}
        \cup {DigitChars[i] : i \in 1..10} \cup {"-", "_", ".", "~"}

AsciiCode(ch) ==
    IF \E i \in 1..26 : UpperChars[i] = ch
    THEN 64 + (CHOOSE i \in 1..26 : UpperChars[i] = ch)
    ELSE IF \E i \in 1..26 : LowerChars[i] = ch
    THEN 96 + (CHOOSE i \in 1..26 : LowerChars[i] = ch)
    ELSE IF \E i \in 1..10 : DigitChars[i] = ch
    THEN 47 + (CHOOSE i \in 1..10 : DigitChars[i] = ch)
    ELSE CASE ch = "-" -> 45 [] ch = "_" -> 95 [] ch = "." -> 46 [] ch = "~" -> 126

IsUpperHex(ch) == \E i \in 1..16 : UpperHexChars[i] = ch
HexValue(ch) == (CHOOSE i \in 1..16 : UpperHexChars[i] = ch) - 1

\* An encoded string is made of unreserved chars and %XX escapes only.
RECURSIVE IsEncoded(_)
IsEncoded(str) ==
    IF str = <<>> THEN TRUE
    ELSE IF Head(str) = "%"
    THEN /\ Len(str) >= 3
         /\ IsUpperHex(str[2])
         /\ IsUpperHex(str[3])
         /\ IsEncoded(SubSeq(str, 4, Len(str)))
    ELSE Head(str) \in UnreservedChars /\ IsEncoded(Tail(str))

\* The bytes an encoded string stands for.
RECURSIVE PercentDecode(_)
PercentDecode(str) ==
    IF str = <<>> THEN <<>>
    ELSE IF Head(str) = "%"
    THEN <<16 * HexValue(str[2]) + HexValue(str[3])>> \o PercentDecode(SubSeq(str, 4, Len(str)))
    ELSE <<AsciiCode(Head(str))>> \o PercentDecode(Tail(str))

\* The byte is the code of an unreserved character.
AsciiCodeIsUnreserved(b) == \E ch \in UnreservedChars : AsciiCode(ch) = b

\* The number of chars the claim gives the encoding of the bytes.
RECURSIVE EncodedLen(_)
EncodedLen(bytes) ==
    IF bytes = <<>> THEN 0
    ELSE (IF AsciiCodeIsUnreserved(Head(bytes)) THEN 1 ELSE 3) + EncodedLen(Tail(bytes))

\* C13: the output is made of unreserved chars and %XX escapes with
\* uppercase digits only, has one char per unreserved byte and three per
\* other byte, and decoding its escapes gives back the input bytes.
C13_EncodeRoundTrip ==
    enc_done =>
        /\ IsEncoded(enc_out)
        /\ Len(enc_out) = EncodedLen(enc_value)
        /\ PercentDecode(enc_out) = enc_value

\* The two bytes of a two-byte char: one escape per byte.
C13_Witness ==
    /\ enc_done
    /\ enc_value = <<195, 169>>
    /\ enc_out = <<"%", "C", "3", "%", "A", "9">>


(***************************************************************************)
(* build_ctx_open_url (markdown.rs, lines 80-98) and is_absolute_path      *)
(* (utils.rs, lines 178-189).  Strings are sequences of chars; the bytes   *)
(* of a string are the UTF-8 bytes of its chars.                           *)
(***************************************************************************)
\* The UTF-8 bytes of a char: str::as_bytes
CharBytes(ch) ==
    IF \E i \in 1..26 : UpperChars[i] = ch
    THEN <<64 + (CHOOSE i \in 1..26 : UpperChars[i] = ch)>>
    ELSE IF \E i \in 1..26 : LowerChars[i] = ch
    THEN <<96 + (CHOOSE i \in 1..26 : LowerChars[i] = ch)>>
    ELSE IF \E i \in 1..10 : DigitChars[i] = ch
    THEN <<47 + (CHOOSE i \in 1..10 : DigitChars[i] = ch)>>
    ELSE CASE ch = " "  -> <<32>>
           [] ch = "#"  -> <<35>>
           [] ch = "%"  -> <<37>>
           [] ch = "&"  -> <<38>>
           [] ch = "-"  -> <<45>>
           [] ch = "."  -> <<46>>
           [] ch = "/"  -> <<47>>
           [] ch = ":"  -> <<58>>
           [] ch = "="  -> <<61>>
           [] ch = "?"  -> <<63>>
           [] ch = "\\" -> <<92>>
           [] ch = "_"  -> <<95>>
           [] ch = "~"  -> <<126>>
           [] ch = "é"  -> <<195, 169>>

RECURSIVE as_bytes(_)
as_bytes(str) == IF str = <<>> THEN <<>> ELSE CharBytes(Head(str)) \o as_bytes(Tail(str))

\* utils.rs, lines 178-189
is_absolute_path(path) ==
    IF path = <<>> THEN FALSE
    ELSE IF path = <<"~">> \/ StartsWith(path, <<"~", "/">>) THEN TRUE
    ELSE IF StartsWith(path, <<"/">>) \/ StartsWith(path, <<"\\">>) THEN TRUE
    ELSE is_windows_drive(path)

\* The string literals of build_ctx_open_url.
CtxOpenPrefix == <<"c", "t", "x", ":", "/", "/", "o", "p", "e", "n", "?">>
PathKey == <<"p", "a", "t", "h", "=">>
WorktreeIdKey == <<"w", "o", "r", "k", "t", "r", "e", "e", "I", "d", "=">>
FileKey == <<"f", "i", "l", "e", "=">>
LineKey == <<"l", "i", "n", "e", "=">>
ColKey == <<"c", "o", "l", "=">>

\* [String]::join
RECURSIVE Join(_, _)
Join(parts, sep) ==
    IF parts = <<>> THEN <<>>
    ELSE IF Len(parts) = 1 THEN parts[1]
    ELSE parts[1] \o sep \o Join(Tail(parts), sep)

\* The two parameters pushed with the column before the line.
ColLineParams(fref) ==
    (IF fref.col # NoneNum THEN <<ColKey \o fref.col>> ELSE <<>>)
        \o (IF fref.line # NoneNum THEN <<LineKey \o fref.line>> ELSE <<>>)

\* lines 91-96: format!("line={}", line) and format!("col={}", col); a u32
\* is formatted as its decimal digits without leading zeros
LineColParams(fref) ==
    (IF fref.line # NoneNum THEN <<LineKey \o fref.line>> ELSE <<>>)
        \o (IF fref.col # NoneNum THEN <<ColKey \o fref.col>> ELSE <<>>)

\* lines 80-98
build_ctx_open_url(fref, worktree_id) ==
    IF is_absolute_path(fref.path)
    THEN SomeStr(CtxOpenPrefix
                 \o Join(<<PathKey \o encode_uri_component(as_bytes(fref.path))>>
                             \o LineColParams(fref), <<"&">>))
    ELSE IF ~worktree_id.some
    THEN NoneStr
    ELSE SomeStr(CtxOpenPrefix
                 \o Join(<<WorktreeIdKey \o encode_uri_component(as_bytes(worktree_id.str)),
                           FileKey \o encode_uri_component(as_bytes(fref.path))>>
                             \o LineColParams(fref), <<"&">>))

\* The chars of the paths and the workspace ids, and the line and column
\* numbers of the FileRef.
UrlPathChars == {"/", "\\", "~", ":", "a", " ", "é"}
UrlNums == {NoneNum, <<"7">>, <<"4", "2">>}
UrlWorktreeIds == {NoneStr, SomeStr(<<>>), SomeStr(<<"w">>), SomeStr(<<"w", " ", "é">>)}

UrlInit ==
    /\ RunIdle
    /\ PtIdle
    /\ SelIdle
    /\ SplitIdle
    /\ TokIdle
    /\ PaintIdle
    /\ EncIdle
    /\ MarksIdle
    /\ InlIdle
    /\ DocIdle
    /\ PrefixIdle
    /\ url_file_ref \in {SomeFileRef(p, l, c) :
                            p \in SeqsUpTo(UrlPathChars, MaxPathChars),
                            l \in UrlNums, c \in UrlNums}
    /\ url_worktree_id \in UrlWorktreeIds
    /\ url_done = FALSE
    /\ url_out = NoneStr

BuildCtxOpenUrl ==
    /\ ~url_done
    /\ url_done' = TRUE
    /\ url_out' = build_ctx_open_url(url_file_ref, url_worktree_id)
    /\ UNCHANGED <<url_file_ref, url_worktree_id>>
    /\ UNCHANGED <<runVars, ptVars, selVars, splitVars, tokVars, paintVars, encVars, marksVars, inlVars, docVars, prefixVars>>

UrlNext == BuildCtxOpenUrl

SpecUrl == UrlInit /\ [][UrlNext]_vars

(***************************************************************************)
(* Claims about build_ctx_open_url.                                        *)
(***************************************************************************)
\* `&line=<n>` then `&col=<n>`, each exactly when the FileRef has it.
LineColSuffix ==
    (IF url_file_ref.line # NoneNum THEN <<"&">> \o LineKey \o url_file_ref.line ELSE <<>>)
        \o (IF url_file_ref.col # NoneNum THEN <<"&">> \o ColKey \o url_file_ref.col ELSE <<>>)

EncodedPath == encode_uri_component(as_bytes(url_file_ref.path))

\* C12: for an absolute path the URL is ctx://open?path=<encoded path>,
\* with or without a workspace id; for another path there is no URL without
\* a workspace id, and with one the URL is
\* ctx://open?worktreeId=<encoded id>&file=<encoded path>; both forms end
\* with &line=<n> then &col=<n>, each exactly when the FileRef has it.
C12_CtxOpenUrl ==
    url_done =>
        /\ is_absolute_path(url_file_ref.path) =>
               url_out = SomeStr(CtxOpenPrefix \o PathKey \o EncodedPath \o LineColSuffix)
        /\ (~is_absolute_path(url_file_ref.path) /\ ~url_worktree_id.some) =>
               url_out = NoneStr
        /\ (~is_absolute_path(url_file_ref.path) /\ url_worktree_id.some) =>
               url_out = SomeStr(CtxOpenPrefix \o WorktreeIdKey
                                 \o encode_uri_component(as_bytes(url_worktree_id.str))
                                 \o <<"&">> \o FileKey \o EncodedPath \o LineColSuffix)

\* A relative path with a workspace id, a line and a column.
C12_Witness ==
    /\ url_done
    /\ url_file_ref.path = <<"a", "/", "a">>
    /\ url_file_ref.line = <<"4", "2">>
    /\ url_file_ref.col = <<"7">>
    /\ url_worktree_id = SomeStr(<<"w">>)
    /\ url_out = SomeStr(CtxOpenPrefix \o WorktreeIdKey \o <<"w", "&">> \o FileKey
                         \o <<"a", "%", "2", "F", "a", "&">> \o LineKey
                         \o <<"4", "2", "&">> \o ColKey \o <<"7">>)


(***************************************************************************)
(* build_inline_code_marks (markdown.rs, lines 37-78) and parse_url_token  *)
(* (utils.rs, lines 170-176).                                              *)
(***************************************************************************)
\* Option<LinkMark>::None, and LinkMark::default()
NoneLinkMark ==
    [some |-> FALSE, url |-> <<>>, title |-> NoneStr, identifier |-> NoneStr,
     requires_modifiers |-> FALSE, decorate |-> FALSE]
DefaultLinkMark == [NoneLinkMark EXCEPT !.some = TRUE]

\* TextMark::default() and its builders
DefaultTextMark ==
    [italic |-> FALSE, bold |-> FALSE, strikethrough |-> FALSE, code |-> FALSE,
     link |-> NoneLinkMark]
CodeMark == [DefaultTextMark EXCEPT !.code = TRUE]
LinkTextMark(link) == [DefaultTextMark EXCEPT !.link = link]

\* char::to_ascii_lowercase
ToAsciiLowercase(ch) ==
    IF \E i \in 1..26 : UpperChars[i] = ch
    THEN LowerChars[CHOOSE i \in 1..26 : UpperChars[i] = ch]
    ELSE ch

\* utils.rs, lines 170-176
parse_url_token(str) ==
    LET lower == [i \in 1..Len(str) |-> ToAsciiLowercase(str[i])]
    IN  IF ~(\/ StartsWith(lower, <<"h", "t", "t", "p", ":", "/", "/">>)
             \/ StartsWith(lower, <<"h", "t", "t", "p", "s", ":", "/", "/">>))
        THEN NoneStr
        ELSE SomeStr(str)

\* &text[range]: the chars whose bytes lie in the byte range
RECURSIVE Slice(_, _, _)
Slice(text, idx, range) ==
    IF text = <<>>
    THEN <<>>
    ELSE (IF range.start <= idx /\ idx < range.end THEN <<Head(text)>> ELSE <<>>)
             \o Slice(Tail(text), idx + LenUtf8(Head(text)), range)

\* str::trim
RECURSIVE TrimStart(_)
TrimStart(str) ==
    IF str # <<>> /\ IsWhitespace(Head(str)) THEN TrimStart(Tail(str)) ELSE str

\* A relative file reference is linked with a workspace id only.
CanLinkWithWorktreeOnly(options, fref) == options.worktree_id.some

\* line 63
CanLink(options, fref) == options.worktree_id.some \/ is_absolute_path(fref.path)

\* lines 54-57 and 68-71: the link of a token
TokenLink(url) ==
    [DefaultLinkMark EXCEPT !.url = url, !.requires_modifiers = TRUE, !.decorate = FALSE]

\* lines 45-74: the marks one token range adds
TokenMarks(text, options, range) ==
    LET token    == Slice(text, 0, range)
        url      == parse_url_token(token)
        fref     == parse_file_ref_token(token)
        ctx_url  == build_ctx_open_url(fref, options.worktree_id)
    IN  IF range.start >= range.end THEN <<>>
        ELSE IF TrimStart(token) = <<>> THEN <<>>
        ELSE IF url.some
        THEN <<[range |-> range, mark |-> LinkTextMark(TokenLink(url.str))]>>
        ELSE IF ~fref.some THEN <<>>
        ELSE IF ~CanLink(options, fref) THEN <<>>
        ELSE IF ~ctx_url.some THEN <<>>
        ELSE <<[range |-> range, mark |-> LinkTextMark(TokenLink(ctx_url.str))]>>

\* lines 44-75: the loop over the token ranges
RECURSIVE TokenLoop(_, _, _)
TokenLoop(text, options, ranges) ==
    IF ranges = <<>>
    THEN <<>>
    ELSE TokenMarks(text, options, Head(ranges)) \o TokenLoop(text, options, Tail(ranges))

\* lines 37-78
build_inline_code_marks(text, options) ==
    LET first == <<[range |-> [start |-> 0, end |-> ByteLen(text)], mark |-> CodeMark]>>
    IN  IF ~options.enabled \/ text = <<>>
        THEN first
        ELSE first \o TokenLoop(text, options, split_whitespace_token_ranges(text))

\* The tokens of the inline code: URLs in both schemes and cases, something
\* with another scheme, absolute and relative file references with and
\* without line, and plain words.
CodeWords ==
    {<<"h", "t", "t", "p", ":", "/", "/", "a">>,
     <<"H", "T", "T", "P", "S", ":", "/", "/">>,
     <<"h", "t", "t", "p", ":", "/", "a">>,
     <<"f", "t", "p", ":", "/", "/", "a">>,
     <<"/", "a", ":", "1">>,
     <<"a", ":", "/", "é">>,
     <<"~">>,
     <<"a", "/", "b", "#", "L", "2">>,
     <<".", "/", "a">>,
     <<"a", ":", "1">>,
     <<"a">>}

\* The whitespace between two tokens, and around them.
CodeSeparators == {<<" ">>, <<"sp3">>, <<" ", " ">>}
CodeMargins == {<<>>, <<" ">>}

\* The texts of n words
RECURSIVE CodeTexts(_)
CodeTexts(n) ==
    IF n = 0 THEN {<<>>}
    ELSE IF n = 1 THEN CodeWords
    ELSE {t \o sep \o w : t \in CodeTexts(n - 1), sep \in CodeSeparators, w \in CodeWords}

CodeTokenLinksSet ==
    {[enabled |-> e, worktree_id |-> w] :
        e \in BOOLEAN, w \in {NoneStr, SomeStr(<<"w">>)}}

MarksInit ==
    /\ RunIdle
    /\ PtIdle
    /\ SelIdle
    /\ SplitIdle
    /\ TokIdle
    /\ PaintIdle
    /\ EncIdle
    /\ UrlIdle
    /\ InlIdle
    /\ DocIdle
    /\ PrefixIdle
    /\ code_text \in {lead \o t \o trail :
                         lead \in CodeMargins, trail \in CodeMargins,
                         t \in UNION {CodeTexts(n) : n \in 0..MaxWords}}
    /\ code_token_links \in CodeTokenLinksSet
    /\ marks_done = FALSE
    /\ marks = <<>>

BuildInlineCodeMarks ==
    /\ ~marks_done
    /\ marks_done' = TRUE
    /\ marks' = build_inline_code_marks(code_text, code_token_links)
    /\ UNCHANGED <<code_text, code_token_links>>
    /\ UNCHANGED <<runVars, ptVars, selVars, splitVars, tokVars, paintVars, encVars, urlVars, inlVars, docVars, prefixVars>>

MarksNext == BuildInlineCodeMarks

SpecMarks == MarksInit /\ [][MarksNext]_vars

(***************************************************************************)
(* Claims about build_inline_code_marks.                                   *)
(***************************************************************************)
\* The byte offset of the k-th char of the code text.
CodeByteAt(k) == ByteLen(SubSeq(code_text, 1, k - 1))

\* The chars i..j-1 of the code text are a whitespace-delimited token.
IsCodeToken(i, j) ==
    /\ i < j
    /\ \A k \in i..(j - 1) : ~IsWhitespace(code_text[k])
    /\ i = 1 \/ IsWhitespace(code_text[i - 1])
    /\ j = Len(code_text) + 1 \/ IsWhitespace(code_text[j])

CodeTokens ==
    {p \in (1..Len(code_text)) \X (1..(Len(code_text) + 1)) : IsCodeToken(p[1], p[2])}

\* The token is one the claim gives a link: a URL, or a file reference
\* whose path is absolute or that comes with a workspace id.
IsLinkedToken(p) ==
    LET token == SubSeq(code_text, p[1], p[2] - 1)
    IN  \/ parse_url_token(token).some
        \/ /\ parse_file_ref_token(token).some
           /\ \/ is_absolute_path(parse_file_ref_token(token).path)
              \/ code_token_links.worktree_id.some

LinkedRanges ==
    {[start |-> CodeByteAt(p[1]), end |-> CodeByteAt(p[2])] :
        p \in {q \in CodeTokens : IsLinkedToken(q)}}

\* C14: the first mark is the code mark over the whole text; with
\* linkification disabled or an empty text there is no other mark; with it
\* enabled the other marks are link marks, one per linked token and none
\* for any other token, in the order of the tokens, each over exactly the
\* byte range of its token, with requires_modifiers set and decorate unset.
C14_InlineCodeMarks ==
    marks_done =>
        /\ Len(marks) >= 1
        /\ marks[1] = [range |-> [start |-> 0, end |-> ByteLen(code_text)], mark |-> CodeMark]
        /\ (~code_token_links.enabled \/ code_text = <<>>) => Len(marks) = 1
        /\ code_token_links.enabled =>
               /\ {marks[n].range : n \in 2..Len(marks)} = LinkedRanges
               /\ Len(marks) - 1 = Cardinality(LinkedRanges)
               /\ \A n \in 2..(Len(marks) - 1) : marks[n].range.end < marks[n + 1].range.start
        /\ \A n \in 2..Len(marks) :
               /\ marks[n].mark.link.some
               /\ marks[n].mark.link.requires_modifiers = TRUE
               /\ marks[n].mark.link.decorate = FALSE
               /\ ~marks[n].mark.code

\* Without a workspace id, an absolute file reference after multi-byte
\* whitespace is linked and a relative one is not.
C14_Witness ==
    /\ marks_done
    /\ code_token_links = [enabled |-> TRUE, worktree_id |-> NoneStr]
    /\ code_text = <<".", "/", "a", "sp3", "/", "a", ":", "1">>
    /\ Len(marks) = 2
    /\ marks[2].range = [start |-> 6, end |-> 10]
    /\ marks[2].mark.link.requires_modifiers


(***************************************************************************)
(* parse_paragraph (markdown.rs, lines 125-295).  A node of the AST is a   *)
(* record with its kind and the fields of that kind; the result of the     *)
(* HTML collaborator for an Html node is part of the node.  Spans are left *)
(* out.                                                                    *)
(***************************************************************************)
\* The nodes of the AST, by kind.
TextNode(value) == [kind |-> "Text", value |-> value]
EmphasisNode(children) == [kind |-> "Emphasis", children |-> children]
StrongNode(children) == [kind |-> "Strong", children |-> children]
DeleteNode(children) == [kind |-> "Delete", children |-> children]
InlineCodeNode(value) == [kind |-> "InlineCode", value |-> value]
LinkNode(url, title, children) ==
    [kind |-> "Link", url |-> url, title |-> title, children |-> children]
ImageNodeAst(url, title, alt) == [kind |-> "Image", url |-> url, title |-> title, alt |-> alt]
InlineMathNode(value) == [kind |-> "InlineMath", value |-> value]
MdxTextExpressionNode(value) == [kind |-> "MdxTextExpression", value |-> value]
HtmlNode(value, html) == [kind |-> "Html", value |-> value, html |-> html]
FootnoteReferenceNode(identifier) == [kind |-> "FootnoteReference", identifier |-> identifier]
LinkReferenceNode(identifier, label, children) ==
    [kind |-> "LinkReference", identifier |-> identifier, label |-> label,
     children |-> children]
\* a node parse_paragraph has no arm for
BreakNode == [kind |-> "Break"]

\* The result of super::html::parse: Err, or Ok with the kinds of el.blocks
HtmlErr == [ok |-> FALSE, blocks |-> <<>>]
HtmlOk(blocks) == [ok |-> TRUE, blocks |-> blocks]

\* BlockNode::is_break
is_break(block) == block = "Break"

\* ImageNode, and an InlineNode without one
NoneImage ==
    [some |-> FALSE, url |-> <<>>, title |-> NoneStr, alt |-> NoneStr, link |-> NoneLinkMark]

\* InlineNode::new(text) and InlineNode::marks(marks)
InlineNodeNew(text) == [text |-> text, marks |-> <<>>, image |-> NoneImage]
WithMarks(node, ms) == [node EXCEPT !.marks = ms]

\* A mark over the whole of a text
FullRange(text) == [start |-> 0, end |-> ByteLen(text)]

\* Paragraph::push, push_str, push_image and merge
Push(paragraph, node) ==
    [children |-> Append(paragraph.children, node), text |-> paragraph.text \o node.text]
PushStr(paragraph, str) == Push(paragraph, InlineNodeNew(str))
PushImage(paragraph, image) ==
    Push(paragraph, [text |-> <<>>, marks |-> <<>>, image |-> image])
Merge(paragraph, other) ==
    [children |-> paragraph.children \o other.children, text |-> paragraph.text \o other.text]

\* TextMark::default().italic() / .bold() / .strikethrough()
ItalicMark == [DefaultTextMark EXCEPT !.italic = TRUE]
BoldMark == [DefaultTextMark EXCEPT !.bold = TRUE]
StrikethroughMark == [DefaultTextMark EXCEPT !.strikethrough = TRUE]

\* lines 180 and 492: url.starts_with("ctx://open?")
IsCtxUrl(url) == StartsWith(url, CtxOpenPrefix)

\* A link mark whose two flags do not depend on the URL.
NodeLinkMarkExternal(url, title) ==
    [DefaultLinkMark EXCEPT !.url = url, !.title = title,
                            !.requires_modifiers = FALSE, !.decorate = TRUE]

\* lines 180-187: the LinkMark of a Link node
NodeLinkMark(url, title) ==
    [DefaultLinkMark EXCEPT !.url = url, !.title = title,
                            !.requires_modifiers = IsCtxUrl(url),
                            !.decorate = ~IsCtxUrl(url)]

\* lines 196-208: the link on every child of the scratch paragraph
LinkChild(child, link_mark) ==
    [text  |-> child.text,
     marks |-> Append(child.marks, [range |-> FullRange(child.text),
                                    mark |-> LinkTextMark(link_mark)]),
     image |-> IF child.image.some
               THEN [child.image EXCEPT !.link = link_mark]
               ELSE child.image]

\* A reference link whose URL is looked up when the link is parsed.
ReferenceLinkMarkResolved(link, cx) ==
    [DefaultLinkMark EXCEPT !.url = IF cx.refs[link.identifier].some
                                    THEN cx.refs[link.identifier].url
                                    ELSE <<>>,
                            !.title = link.label,
                            !.identifier = SomeStr(link.identifier)]

\* lines 272-277: the LinkMark of a LinkReference node
ReferenceLinkMark(link, cx) ==
    [DefaultLinkMark EXCEPT !.url = <<>>, !.title = link.label,
                            !.identifier = SomeStr(link.identifier)]

\* line 256: format!("[{}]", foot.identifier)
FootnotePrefix(identifier) == <<"[">> \o identifier \o <<"]">>

\* The text an arm hands back when it never assigns `text`.
NoText == <<>>

RECURSIVE parse_paragraph(_, _, _)
RECURSIVE RenderChildren(_, _, _)

\* The loops `for child in children { text.push_str(&parse_paragraph(p, child, cx)) }`
RenderChildren(paragraph, children, cx) ==
    IF children = <<>>
    THEN [paragraph |-> paragraph, text |-> <<>>]
    ELSE LET first == parse_paragraph(paragraph, Head(children), cx)
             rest  == RenderChildren(first.paragraph, Tail(children), cx)
         IN  [paragraph |-> rest.paragraph, text |-> first.text \o rest.text]

\* lines 125-295
parse_paragraph(paragraph, node, cx) ==
    CASE node.kind = "Paragraph" ->
             RenderChildren(paragraph, node.children, cx)
      [] node.kind = "Text" ->
             [paragraph |-> PushStr(paragraph, node.value), text |-> node.value]
      [] node.kind \in {"Emphasis", "Strong", "Delete"} ->
             LET scratch == RenderChildren(EmptyParagraph, node.children, cx)
                 mark    == CASE node.kind = "Emphasis" -> ItalicMark
                              [] node.kind = "Strong"   -> BoldMark
                              [] node.kind = "Delete"   -> StrikethroughMark
             IN  [paragraph |->
                      Push(paragraph,
                           WithMarks(InlineNodeNew(scratch.text),
                                     <<[range |-> FullRange(scratch.text), mark |-> mark]>>)),
                  text |-> scratch.text]
      [] node.kind = "InlineCode" ->
             [paragraph |->
                  Push(paragraph,
                       WithMarks(InlineNodeNew(node.value),
                                 build_inline_code_marks(node.value, cx.code_token_links))),
              text |-> node.value]
      [] node.kind = "Link" ->
             LET link_mark == NodeLinkMark(node.url, node.title)
                 scratch   == RenderChildren(EmptyParagraph, node.children, cx)
                 linked    == [scratch.paragraph EXCEPT
                                  !.children = [i \in 1..Len(scratch.paragraph.children) |->
                                                   LinkChild(scratch.paragraph.children[i],
                                                             link_mark)]]
             IN  [paragraph |-> Merge(paragraph, linked), text |-> scratch.text]
      [] node.kind = "Image" ->
             [paragraph |->
                  PushImage(paragraph,
                            [some |-> TRUE, url |-> node.url, title |-> node.title,
                             alt |-> SomeStr(node.alt), link |-> NoneLinkMark]),
              text |-> NoText]
      [] node.kind = "InlineMath" ->
             [paragraph |->
                  Push(paragraph,
                       WithMarks(InlineNodeNew(node.value),
                                 <<[range |-> FullRange(node.value), mark |-> CodeMark]>>)),
              text |-> node.value]
      [] node.kind = "MdxTextExpression" ->
             [paragraph |->
                  Push(paragraph,
                       WithMarks(InlineNodeNew(node.value),
                                 <<[range |-> FullRange(node.value),
                                    mark |-> DefaultTextMark]>>)),
              text |-> node.value]
      [] node.kind = "Html" ->
             IF node.html.ok
             THEN IF node.html.blocks # <<>> /\ is_break(Head(node.html.blocks))
                  THEN [paragraph |-> Push(paragraph, InlineNodeNew(<<"\n">>)),
                        text |-> <<"\n">>]
                  ELSE [paragraph |-> paragraph, text |-> NoText]
             ELSE [paragraph |-> paragraph, text |-> node.value]
      [] node.kind = "FootnoteReference" ->
             LET prefix == FootnotePrefix(node.identifier)
             IN  [paragraph |->
                      Push(paragraph,
                           WithMarks(InlineNodeNew(prefix),
                                     <<[range |-> FullRange(prefix), mark |-> ItalicMark]>>)),
                  text |-> NoText]
      [] node.kind = "LinkReference" ->
             LET scratch    == RenderChildren(EmptyParagraph, node.children, cx)
                 child_text == scratch.text
             IN  [paragraph |->
                      Push(paragraph,
                           WithMarks(InlineNodeNew(child_text),
                                     <<[range |-> FullRange(child_text),
                                        mark  |-> LinkTextMark(ReferenceLinkMark(node, cx))]>>)),
                  text |-> NoText]
      [] OTHER -> [paragraph |-> paragraph, text |-> NoText]


\* The reference identifiers, and the Reference Table before any Definition.
RefIds == {<<"r">>, <<"s">>}
EmptyRefs == [id \in RefIds |-> NoneLinkMark]

\* The URLs of links and definitions: internal ones, and others that look
\* like them.
CtxUrl == CtxOpenPrefix \o PathKey \o <<"a">>
LinkUrls ==
    {CtxUrl, <<"c", "t", "x", ":", "/", "/", "o", "p", "e", "n">>,
     <<"h", "t", "t", "p", ":", "/", "/", "a">>}

\* The results of the HTML collaborator.
HtmlResults ==
    {HtmlErr, HtmlOk(<<>>), HtmlOk(<<"Break">>), HtmlOk(<<"Break", "Paragraph">>),
     HtmlOk(<<"Paragraph">>)}

\* The inline nodes without children.
InlineLeaves ==
    {TextNode(<<"a">>), InlineCodeNode(<<"c", " ", "é">>),
     ImageNodeAst(<<"i">>, NoneStr, <<"p">>), InlineMathNode(<<"m">>),
     MdxTextExpressionNode(<<"x">>), FootnoteReferenceNode(<<"f">>), BreakNode}
    \cup {HtmlNode(<<"<", "b", ">">>, h) : h \in HtmlResults}

\* The inline nodes with the given children.
InlineContainers(children) ==
    {EmphasisNode(children), StrongNode(children), DeleteNode(children),
     LinkNode(CtxUrl, NoneStr, children),
     LinkNode(<<"h", "t", "t", "p", ":", "/", "/", "a">>, SomeStr(<<"T">>), children),
     LinkReferenceNode(<<"r">>, SomeStr(<<"R">>), children)}

\* The inline nodes: leaves, containers of up to n leaves, and containers
\* of one such container.
InlineLevel1(n) ==
    UNION {InlineContainers(children) : children \in SeqsUpTo(InlineLeaves, n)}
InlineLevel2(n) == UNION {InlineContainers(<<child>>) : child \in InlineLevel1(n)}
InlineNodes(n) == InlineLeaves \cup InlineLevel1(n) \cup InlineLevel2(n)

\* cx : &mut NodeContext, as parse_paragraph uses it
InlineCx == [refs |-> EmptyRefs, code_token_links |-> code_token_links]

InlInit ==
    /\ RunIdle
    /\ PtIdle
    /\ SelIdle
    /\ SplitIdle
    /\ TokIdle
    /\ PaintIdle
    /\ EncIdle
    /\ UrlIdle
    /\ MarksIdle
    /\ DocIdle
    /\ PrefixIdle
    /\ inl_node \in InlineNodes(MaxChildren)
    /\ inl_done = FALSE
    /\ inl_paragraph = EmptyParagraph
    /\ inl_text = <<>>

ParseParagraph ==
    /\ ~inl_done
    /\ inl_done' = TRUE
    /\ LET res == parse_paragraph(inl_paragraph, inl_node, InlineCx)
       IN  /\ inl_paragraph' = res.paragraph
           /\ inl_text' = res.text
    /\ UNCHANGED inl_node
    /\ UNCHANGED <<runVars, ptVars, selVars, splitVars, tokVars, paintVars, encVars, urlVars, marksVars, docVars, prefixVars>>

InlNext == ParseParagraph

SpecInline == InlInit /\ [][InlNext]_vars

(***************************************************************************)
(* Claims about parse_paragraph.                                           *)
(***************************************************************************)
\* The texts of the inline nodes of a paragraph, one after the other.
RECURSIVE JoinTexts(_)
JoinTexts(nodes) == IF nodes = <<>> THEN <<>> ELSE Head(nodes).text \o JoinTexts(Tail(nodes))

\* The scratch paragraph the children of the node render into.
ScratchParagraph == RenderChildren(EmptyParagraph, inl_node.children, InlineCx).paragraph

\* The mark of an Emphasis, Strong or Delete node.
StyleMark ==
    CASE inl_node.kind = "Emphasis" -> ItalicMark
      [] inl_node.kind = "Strong"   -> BoldMark
      [] inl_node.kind = "Delete"   -> StrikethroughMark

\* C16: for an Emphasis, Strong or Delete node the paragraph gets exactly
\* one InlineNode; its text is the concatenation of the texts of all inline
\* nodes the children rendered into the scratch paragraph, and its only
\* mark is the italic, bold or strikethrough mark over [0, len).
C16_StyledNodeText ==
    (inl_done /\ inl_node.kind \in {"Emphasis", "Strong", "Delete"}) =>
        /\ Len(inl_paragraph.children) = 1
        /\ inl_paragraph.children[1].text = JoinTexts(ScratchParagraph.children)
        /\ inl_paragraph.children[1].marks =
               <<[range |-> FullRange(JoinTexts(ScratchParagraph.children)),
                  mark  |-> StyleMark]>>

\* C20: an inline Html node whose fragment parses to a single line-break
\* block puts one InlineNode with the text "\n" into the paragraph; every
\* other inline Html node, error or not, puts its raw value into the
\* paragraph as literal text.
C20_InlineHtml ==
    (inl_done /\ inl_node.kind = "Html") =>
        IF inl_node.html = HtmlOk(<<"Break">>)
        THEN inl_paragraph.children = <<InlineNodeNew(<<"\n">>)>>
        ELSE /\ Len(inl_paragraph.children) = 1
             /\ inl_paragraph.children[1].text = inl_node.value
             /\ inl_paragraph.text = inl_node.value


(***************************************************************************)
(* ast_to_document and ast_to_node (markdown.rs, lines 297-519).  The      *)
(* NodeContext is a record of the Reference Table and the linkification    *)
(* options; a block is a record with its kind and the fields of that kind. *)
(* Spans and highlighting are left out.                                    *)
(***************************************************************************)
ParagraphNode(children) == [kind |-> "Paragraph", children |-> children]
DefinitionNode(identifier, url, title) ==
    [kind |-> "Definition", identifier |-> identifier, url |-> url, title |-> title]

\* NodeContext::add_ref
AddRef(cx, identifier, link) == [cx EXCEPT !.refs[identifier] = link]

\* Paragraph::new(text)
ParagraphNew(text) == PushStr(EmptyParagraph, text)

\* CodeBlock::new(code, lang, highlight_theme, span)
CodeBlockNew(code, lang) == [kind |-> "CodeBlock", code |-> code, lang |-> lang]

\* BlockNode::Paragraph(paragraph)
ParagraphBlock(paragraph) == [kind |-> "Paragraph", paragraph |-> paragraph]

\* `children.iter().for_each(|c| { parse_paragraph(&mut paragraph, c, cx); })`
RECURSIVE ParseInto(_, _, _)
ParseInto(paragraph, children, cx) ==
    IF children = <<>>
    THEN paragraph
    ELSE ParseInto(parse_paragraph(paragraph, Head(children), cx).paragraph,
                   Tail(children), cx)

\* lines 113-123
parse_table_cell(cell, cx) == [children |-> ParseInto(EmptyParagraph, cell.children, cx)]

\* lines 100-111
parse_table_row(row, cx) ==
    LET cells == SelectSeq(row.children, LAMBDA c : c.kind = "TableCell")
    IN  [children |-> [i \in 1..Len(cells) |-> parse_table_cell(cells[i], cx)]]

\* lines 476-483: the italic `[id]: ` prefix of a footnote definition
FootnoteDefinitionPrefix(identifier) ==
    LET prefix == <<"[">> \o identifier \o <<"]", ":", " ">>
    IN  WithMarks(InlineNodeNew(prefix), <<[range |-> FullRange(prefix), mark |-> ItalicMark]>>)

\* A definition's link mark without its title.
DefinitionLinkMarkUntitled(def) ==
    [DefaultLinkMark EXCEPT !.url = def.url,
                            !.identifier = SomeStr(def.identifier),
                            !.requires_modifiers = IsCtxUrl(def.url),
                            !.decorate = ~IsCtxUrl(def.url)]

\* lines 492-502: the LinkMark of a Definition node
DefinitionLinkMark(def) ==
    [DefaultLinkMark EXCEPT !.url = def.url,
                            !.identifier = SomeStr(def.identifier),
                            !.title = def.title,
                            !.requires_modifiers = IsCtxUrl(def.url),
                            !.decorate = ~IsCtxUrl(def.url)]

\* A collect that leaves out the Unknown blocks.
CollectKnown(blocks, block) == IF block.kind = "Unknown" THEN blocks ELSE Append(blocks, block)

\* `.collect()`: every block the map yields, in order
Collect(blocks, block) == Append(blocks, block)

RECURSIVE ast_to_node(_, _)
RECURSIVE MapCollect(_, _, _)

\* `children.into_iter().map(|c| ast_to_node(c, cx, highlight_theme)).collect()`
MapCollect(blocks, children, cx) ==
    IF children = <<>>
    THEN [blocks |-> blocks, cx |-> cx]
    ELSE LET first == ast_to_node(Head(children), cx)
         IN  MapCollect(Collect(blocks, first.block), Tail(children), first.cx)

\* lines 328-519; `Node::Root` is not a child the grammar parser produces
ast_to_node(value, cx) ==
    CASE value.kind \in {"Paragraph", "MdxJsxTextElement", "MdxJsxFlowElement"} ->
             [block |-> ParagraphBlock(ParseInto(EmptyParagraph, value.children, cx)),
              cx |-> cx]
      [] value.kind = "Blockquote" ->
             LET res == MapCollect(<<>>, value.children, cx)
             IN  [block |-> [kind |-> "Blockquote", children |-> res.blocks], cx |-> res.cx]
      [] value.kind = "List" ->
             LET res == MapCollect(<<>>, value.children, cx)
             IN  [block |-> [kind |-> "List", ordered |-> value.ordered,
                             children |-> res.blocks],
                  cx |-> res.cx]
      [] value.kind = "ListItem" ->
             LET res == MapCollect(<<>>, value.children, cx)
             IN  [block |-> [kind |-> "ListItem", children |-> res.blocks,
                             spread |-> value.spread, checked |-> value.checked],
                  cx |-> res.cx]
      [] value.kind = "Break" ->
             [block |-> [kind |-> "Break", html |-> FALSE], cx |-> cx]
      [] value.kind = "Code" ->
             [block |-> CodeBlockNew(value.value, value.lang), cx |-> cx]
      [] value.kind = "Heading" ->
             [block |-> [kind |-> "Heading", level |-> value.depth,
                         children |-> ParseInto(EmptyParagraph, value.children, cx)],
              cx |-> cx]
      [] value.kind = "Math" ->
             [block |-> CodeBlockNew(value.value, NoneStr), cx |-> cx]
      [] value.kind = "Html" ->
             IF value.html.ok
             THEN [block |-> [kind |-> "Root", children |-> value.html.blocks], cx |-> cx]
             ELSE [block |-> ParagraphBlock(ParagraphNew(value.value)), cx |-> cx]
      [] value.kind = "MdxFlowExpression" ->
             [block |-> CodeBlockNew(value.value, SomeStr(<<"m", "d", "x">>)), cx |-> cx]
      [] value.kind = "Yaml" ->
             [block |-> CodeBlockNew(value.value, SomeStr(<<"y", "m", "l">>)), cx |-> cx]
      [] value.kind = "Toml" ->
             [block |-> CodeBlockNew(value.value, SomeStr(<<"t", "o", "m", "l">>)), cx |-> cx]
      [] value.kind = "ThematicBreak" ->
             [block |-> [kind |-> "Divider"], cx |-> cx]
      [] value.kind = "Table" ->
             LET rows == SelectSeq(value.children, LAMBDA c : c.kind = "TableRow")
             IN  [block |-> [kind |-> "Table", column_aligns |-> value.align,
                             children |-> [i \in 1..Len(rows) |-> parse_table_row(rows[i], cx)]],
                  cx |-> cx]
      [] value.kind = "FootnoteDefinition" ->
             [block |-> ParagraphBlock(
                            ParseInto(Push(EmptyParagraph,
                                           FootnoteDefinitionPrefix(value.identifier)),
                                      value.children, cx)),
              cx |-> cx]
      [] value.kind = "Definition" ->
             [block |-> [kind |-> "Definition", identifier |-> value.identifier,
                         url |-> value.url, title |-> value.title],
              cx |-> AddRef(cx, value.identifier, DefinitionLinkMark(value))]
      [] OTHER -> [block |-> [kind |-> "Unknown"], cx |-> cx]

\* lines 297-317
ast_to_document(children, cx) == MapCollect(<<>>, children, cx)

\* The node kinds ast_to_node has no arm for.
UnsupportedKinds == {"MdxjsEsm", "TableRow", "Text"}

\* The top-level nodes of the AST.
DocParagraphs ==
    {ParagraphNode(<<LinkNode(url, NoneStr, <<TextNode(<<"a">>)>>)>>) : url \in LinkUrls}
    \cup
    {ParagraphNode(<<TextNode(<<"a">>)>>),
     ParagraphNode(<<LinkNode(CtxUrl, SomeStr(<<"T">>),
                              <<ImageNodeAst(<<"i">>, NoneStr, <<"p">>)>>)>>),
     ParagraphNode(<<LinkReferenceNode(<<"r">>, SomeStr(<<"R">>), <<TextNode(<<"a">>)>>)>>),
     ParagraphNode(<<LinkReferenceNode(<<"s">>, NoneStr,
                                       <<EmphasisNode(<<TextNode(<<"a">>)>>)>>)>>),
     ParagraphNode(<<TextNode(<<"a">>), FootnoteReferenceNode(<<"f">>)>>)}
DocDefinitions ==
    {DefinitionNode(id, url, NoneStr) : id \in RefIds, url \in LinkUrls}
    \cup {DefinitionNode(<<"r">>, <<"h", "t", "t", "p", ":", "/", "/", "a">>, SomeStr(<<"T">>))}
DocOthers ==
    {[kind |-> "Blockquote",
      children |-> <<DefinitionNode(<<"r">>, <<"h", "t", "t", "p", ":", "/", "/", "b">>,
                                    NoneStr)>>],
     [kind |-> "Blockquote",
      children |-> <<ParagraphNode(<<TextNode(<<"a">>)>>), [kind |-> "MdxjsEsm"]>>],
     [kind |-> "List", ordered |-> TRUE,
      children |-> <<[kind |-> "ListItem", spread |-> FALSE, checked |-> "None",
                      children |-> <<ParagraphNode(<<TextNode(<<"a">>)>>),
                                     DefinitionNode(<<"s">>, CtxOpenPrefix, NoneStr)>>]>>],
     [kind |-> "Break"],
     [kind |-> "Code", value |-> <<"c">>, lang |-> SomeStr(<<"r", "s">>)],
     [kind |-> "Heading", depth |-> 1, children |-> <<TextNode(<<"a">>)>>],
     [kind |-> "Math", value |-> <<"m">>],
     HtmlNode(<<"<", "b", ">">>, HtmlOk(<<"Break">>)),
     HtmlNode(<<"<", "b", ">">>, HtmlErr),
     [kind |-> "MdxFlowExpression", value |-> <<"x">>],
     [kind |-> "Yaml", value |-> <<"y">>],
     [kind |-> "Toml", value |-> <<"t">>],
     [kind |-> "MdxJsxTextElement", children |-> <<TextNode(<<"a">>)>>],
     [kind |-> "MdxJsxFlowElement", children |-> <<TextNode(<<"a">>)>>],
     [kind |-> "ThematicBreak"],
     [kind |-> "Table", align |-> <<"Left">>,
      children |-> <<[kind |-> "TableRow",
                      children |-> <<[kind |-> "TableCell",
                                      children |-> <<TextNode(<<"a">>)>>]>>]>>],
     [kind |-> "FootnoteDefinition", identifier |-> <<"f">>,
      children |-> <<ParagraphNode(<<TextNode(<<"a">>)>>)>>]}
    \cup {[kind |-> k] : k \in UnsupportedKinds}
DocNodes == DocParagraphs \cup DocDefinitions \cup DocOthers

\* cx : &mut NodeContext at the start of a parse
DocCx == [refs |-> EmptyRefs, code_token_links |-> code_token_links]

DocInit ==
    /\ RunIdle
    /\ PtIdle
    /\ SelIdle
    /\ SplitIdle
    /\ TokIdle
    /\ PaintIdle
    /\ EncIdle
    /\ UrlIdle
    /\ MarksIdle
    /\ InlIdle
    /\ PrefixIdle
    /\ doc_children \in SeqsUpTo(DocNodes, MaxBlocks)
    /\ doc_done = FALSE
    /\ doc_blocks = <<>>
    /\ doc_refs = EmptyRefs

AstToDocument ==
    /\ ~doc_done
    /\ doc_done' = TRUE
    /\ LET res == ast_to_document(doc_children, DocCx)
       IN  /\ doc_blocks' = res.blocks
           /\ doc_refs' = res.cx.refs
    /\ UNCHANGED doc_children
    /\ UNCHANGED <<runVars, ptVars, selVars, splitVars, tokVars, paintVars, encVars, urlVars, marksVars, inlVars, prefixVars>>

DocNext == AstToDocument

SpecDoc == DocInit /\ [][DocNext]_vars

(***************************************************************************)
(* Claims about ast_to_document.                                           *)
(***************************************************************************)
\* The URL begins with the eleven characters of `ctx://open?`.
IsInternalUrl(url) ==
    /\ Len(url) >= 11
    /\ SubSeq(url, 1, 11) = <<"c", "t", "x", ":", "/", "/", "o", "p", "e", "n", "?">>

\* The two flags of a link mark are the ones of its URL.
FlagsFollowUrl(link) ==
    /\ link.requires_modifiers = IsInternalUrl(link.url)
    /\ link.decorate = ~IsInternalUrl(link.url)
    /\ link.requires_modifiers # link.decorate

\* The top-level children that are a paragraph of one node of the kind.
ParagraphsOfOne(kind) ==
    {i \in 1..Len(doc_children) :
        /\ doc_children[i].kind = "Paragraph"
        /\ Len(doc_children[i].children) = 1
        /\ doc_children[i].children[1].kind = kind}

\* C15: the LinkMark of every Link node (on every inline node and image the
\* link produced) and of every Definition node (in the Reference Table) has
\* requires_modifiers=true and decorate=false when its URL starts with
\* `ctx://open?`, and requires_modifiers=false and decorate=true otherwise;
\* exactly one of the two flags is set.
C15_LinkFlags ==
    doc_done =>
        /\ \A i \in ParagraphsOfOne("Link") :
               LET link  == doc_children[i].children[1]
                   nodes == doc_blocks[i].paragraph.children
               IN  /\ nodes # <<>>
                   /\ \A j \in 1..Len(nodes) :
                          LET mark == nodes[j].marks[Len(nodes[j].marks)].mark.link
                          IN  /\ mark.some
                              /\ mark.url = link.url
                              /\ FlagsFollowUrl(mark)
                              /\ nodes[j].image.some =>
                                     /\ nodes[j].image.link.some
                                     /\ nodes[j].image.link.url = link.url
                                     /\ FlagsFollowUrl(nodes[j].image.link)
        /\ \A id \in RefIds : doc_refs[id].some => FlagsFollowUrl(doc_refs[id])

C15_Witness ==
    /\ doc_done
    /\ \E i \in ParagraphsOfOne("Link") :
           /\ IsInternalUrl(doc_children[i].children[1].url)
           /\ doc_blocks[i].paragraph.children[1].marks[1].mark.link.requires_modifiers
    /\ \E id \in RefIds :
           /\ doc_refs[id].some
           /\ ~IsInternalUrl(doc_refs[id].url)
           /\ doc_refs[id].decorate

\* The Definition nodes ast_to_node processes, in the order it processes
\* them: the top-level ones and the ones inside block quotes, lists and
\* list items.
RECURSIVE DefinitionsIn(_)
DefinitionsIn(nodes) ==
    IF nodes = <<>>
    THEN <<>>
    ELSE LET node == Head(nodes)
             mine == CASE node.kind = "Definition" -> <<node>>
                       [] node.kind \in {"Blockquote", "List", "ListItem"} ->
                              DefinitionsIn(node.children)
                       [] OTHER -> <<>>
         IN  mine \o DefinitionsIn(Tail(nodes))

\* C17: after a parse the Reference Table maps each identifier to the
\* LinkMark (url, title, identifier) of the last Definition processed with
\* that identifier, and an identifier that no Definition has is not in it.
C17_LastDefinitionWins ==
    doc_done =>
        \A id \in RefIds :
            LET defs == DefinitionsIn(doc_children)
                mine == {k \in 1..Len(defs) : defs[k].identifier = id}
            IN  IF mine = {}
                THEN ~doc_refs[id].some
                ELSE LET last == defs[CHOOSE k \in mine : \A l \in mine : l <= k]
                     IN  /\ doc_refs[id].some
                         /\ doc_refs[id].url = last.url
                         /\ doc_refs[id].title = last.title
                         /\ doc_refs[id].identifier = SomeStr(id)

C17_Witness ==
    /\ doc_done
    /\ Len(doc_children) = 2
    /\ doc_children[1].kind = "Definition"
    /\ doc_children[2].kind = "Definition"
    /\ doc_children[1].identifier = doc_children[2].identifier
    /\ doc_children[1].url # doc_children[2].url
    /\ doc_children[2].title.some
    /\ doc_refs[doc_children[2].identifier].url = doc_children[2].url
    /\ \E id \in RefIds : ~doc_refs[id].some

\* The Reference Table at the time the i-th top-level child is processed.
RefsBefore(i) == ast_to_document(SubSeq(doc_children, 1, i - 1), DocCx).cx.refs

\* C18: a reference-style link becomes one InlineNode whose only mark is a
\* full-range link mark with the empty URL and the identifier of the
\* reference, whatever the Reference Table holds when the link is
\* processed.
C18_ReferenceLinkMark ==
    doc_done =>
        \A i \in ParagraphsOfOne("LinkReference") :
            LET link  == doc_children[i].children[1]
                nodes == doc_blocks[i].paragraph.children
            IN  /\ Len(nodes) = 1
                /\ Len(nodes[1].marks) = 1
                /\ nodes[1].marks[1].range = [start |-> 0, end |-> ByteLen(nodes[1].text)]
                /\ nodes[1].marks[1].mark.link.some
                /\ nodes[1].marks[1].mark.link.url = <<>>
                /\ nodes[1].marks[1].mark.link.identifier = SomeStr(link.identifier)

C18_Witness ==
    /\ doc_done
    /\ \E i \in ParagraphsOfOne("LinkReference") :
           /\ RefsBefore(i)[doc_children[i].children[1].identifier].some
           /\ RefsBefore(i)[doc_children[i].children[1].identifier].url # <<>>
           /\ doc_blocks[i].paragraph.children[1].marks[1].mark.link.url = <<>>

\* C19: the document has exactly one block per top-level child of the AST,
\* in the order of the children; a child of an unsupported kind becomes an
\* Unknown block, and every other child a block that is not Unknown.
C19_OneBlockPerChild ==
    IF doc_done
    THEN /\ Len(doc_blocks) = Len(doc_children)
         /\ \A i \in 1..Len(doc_children) :
                LET child == doc_children[i]
                    block == doc_blocks[i]
                IN  /\ (child.kind \in UnsupportedKinds) = (block.kind = "Unknown")
                    /\ child.kind = "Definition" =>
                           /\ block.kind = "Definition"
                           /\ block.identifier = child.identifier
                           /\ block.url = child.url
                           /\ block.title = child.title
                    /\ child.kind = "Code" => (block.kind = "CodeBlock" /\ block.code = child.value)
                    /\ child.kind = "Heading" => block.kind = "Heading"
                    /\ child.kind = "ThematicBreak" => block.kind = "Divider"
                    /\ child.kind = "Paragraph" => block.kind = "Paragraph"
    ELSE doc_blocks = <<>>

C19_Witness ==
    /\ doc_done
    /\ Len(doc_children) = 2
    /\ doc_children[1].kind \in UnsupportedKinds
    /\ doc_children[2].kind = "Definition"
    /\ doc_blocks[1].kind = "Unknown"
    /\ doc_blocks[2].kind = "Definition"

(***************************************************************************)
(* list_item_prefix (utils.rs, lines 1-35).  A string is the sequence of   *)
(* its chars.  ix is the index of an item in its list, far below           *)
(* usize::MAX, so `ix + 1` does not overflow.                               *)
(***************************************************************************)
NUMBERED_PREFIXES_1 ==
    <<"A", "B", "C", "D", "E", "F", "G", "H", "I", "J", "K", "L", "M",
      "N", "O", "P", "Q", "R", "S", "T", "U", "V", "W", "X", "Y", "Z">>
NUMBERED_PREFIXES_2 ==
    <<"a", "b", "c", "d", "e", "f", "g", "h", "i", "j", "k", "l", "m",
      "n", "o", "p", "q", "r", "s", "t", "u", "v", "w", "x", "y", "z">>

\* ["▪", "•", "◦", "‣", "⁃"], each by its code point
BULLETS == <<"U+25AA", "U+2022", "U+25E6", "U+2023", "U+2043">>

\* format!("{}", n) for an unsigned n: its decimal digits
RECURSIVE FormatUsize(_)
FormatUsize(n) ==
    IF n < 10
    THEN <<DigitChars[n + 1]>>
    ELSE FormatUsize(n \div 10) \o <<DigitChars[(n % 10) + 1]>>

\* `.chars().nth(n).unwrap()`: the char at index n, counted from 0
Nth(str, n) == str[n + 1]

\* A depth that wraps around the bullets.
WrapDepth(depth) == depth % Len(BULLETS)

\* line 31: depth.min(BULLETS.len() - 1)
ClampDepth(depth) == IF depth < Len(BULLETS) - 1 THEN depth ELSE Len(BULLETS) - 1

list_item_prefix(ix, ordered, depth) ==
    IF ordered
    THEN IF depth = 0
         THEN FormatUsize(ix + 1) \o <<".", " ">>
         ELSE IF depth = 1
         THEN <<Nth(NUMBERED_PREFIXES_1, ix % Len(NUMBERED_PREFIXES_1))>> \o <<".", " ">>
         ELSE <<Nth(NUMBERED_PREFIXES_2, ix % Len(NUMBERED_PREFIXES_2))>> \o <<".", " ">>
    ELSE <<BULLETS[ClampDepth(depth) + 1]>> \o <<" ">>

PrefixInit ==
    /\ RunIdle
    /\ PtIdle
    /\ SelIdle
    /\ SplitIdle
    /\ TokIdle
    /\ PaintIdle
    /\ EncIdle
    /\ UrlIdle
    /\ MarksIdle
    /\ InlIdle
    /\ DocIdle
    /\ lp_ix \in 0..MaxIx
    /\ lp_ordered \in BOOLEAN
    /\ lp_depth \in 0..MaxDepth
    /\ lp_done = FALSE
    /\ lp_out = <<>>

ListItemPrefix ==
    /\ ~lp_done
    /\ lp_done' = TRUE
    /\ lp_out' = list_item_prefix(lp_ix, lp_ordered, lp_depth)
    /\ UNCHANGED <<lp_ix, lp_ordered, lp_depth>>
    /\ UNCHANGED <<runVars, ptVars, selVars, splitVars, tokVars, paintVars, encVars, urlVars, marksVars, inlVars, docVars>>

PrefixNext == ListItemPrefix

SpecPrefix == PrefixInit /\ [][PrefixNext]_vars

(***************************************************************************)
(* Claims about list_item_prefix.                                          *)
(***************************************************************************)
\* The number a sequence of decimal digits stands for.
RECURSIVE DecimalValue(_)
DecimalValue(digits) ==
    IF digits = <<>>
    THEN 0
    ELSE 10 * DecimalValue(SubSeq(digits, 1, Len(digits) - 1))
         + DigitValue(digits[Len(digits)])

\* The string is the decimal numeral of n, without leading zeros.
IsNumeral(str, n) ==
    /\ str # <<>>
    /\ \A i \in 1..Len(str) : str[i] \in AsciiDigits
    /\ Len(str) > 1 => str[1] # "0"
    /\ DecimalValue(str) = n

\* C23: for an ordered list the prefix is `<ix+1>. ` at depth 0, the
\* uppercase letter number ix mod 26 and `. ` at depth 1, the lowercase
\* letter number ix mod 26 and `. ` at every depth from 2; for an unordered
\* list it is the bullet at index min(depth, 4) of the five bullets and a
\* space, whatever ix is.
C23_ListItemPrefix ==
    lp_done =>
        IF lp_ordered
        THEN /\ Len(lp_out) >= 3
             /\ SubSeq(lp_out, Len(lp_out) - 1, Len(lp_out)) = <<".", " ">>
             /\ LET head == SubSeq(lp_out, 1, Len(lp_out) - 2)
                IN  CASE lp_depth = 0 -> IsNumeral(head, lp_ix + 1)
                      [] lp_depth = 1 -> head = <<UpperChars[(lp_ix % 26) + 1]>>
                      [] OTHER        -> head = <<LowerChars[(lp_ix % 26) + 1]>>
        ELSE \E k \in 0..4 :
                 /\ (k = lp_depth \/ (k = 4 /\ lp_depth > 4))
                 /\ lp_out = <<<<"U+25AA", "U+2022", "U+25E6", "U+2023", "U+2043">>[k + 1], " ">>

C23_Witness ==
    /\ lp_done
    /\ ~lp_ordered
    /\ lp_depth > 4
    /\ lp_ix > 26
    /\ lp_out = <<"U+2043", " ">>

(***************************************************************************)
(* Inline::paint (lines 501-587) and the two handlers it registers.  A     *)
(* mouse position is what the element can tell of it: whether the bounds   *)
(* contain it, and the index TextLayout::index_for_position returns for it *)
(* (NoneIdx for Err).  A position outside the bounds has no index.         *)
(***************************************************************************)
\* Option<LinkMark>::None
NoneLink == [start |-> -1, end |-> -1, url |-> 0, requires_modifiers |-> FALSE]

\* lines 81-85: the first link whose range contains the offset
RECURSIVE FirstLink(_, _, _)
FirstLink(ls, k, offset) ==
    IF k > Len(ls)
    THEN NoneLink
    ELSE IF ls[k].start <= offset /\ offset < ls[k].end
    THEN ls[k]
    ELSE FirstLink(ls, k + 1, offset)

\* lines 75-88
link_for_position(ls, position) ==
    IF position.index = NoneIdx
    THEN NoneLink
    ELSE FirstLink(ls, 1, position.index)

\* line 535: the link under the mouse gets the pointing hand
ShowsPointingHand(link, secondary) == ~link.requires_modifiers \/ secondary

\* A handler that opens the link whatever the modifiers are.
MayOpenAlways(link, secondary) == TRUE

\* lines 578-580: the mouse-up handler goes on to open the link
MayOpen(link, secondary) == ~(link.requires_modifiers /\ ~secondary)

\* The mouse positions over a text of L bytes.
Positions(L) ==
    {Outside, [in_bounds |-> TRUE, index |-> NoneIdx]}
    \cup {[in_bounds |-> TRUE, index |-> i] : i \in 0..(L - 1)}

\* The links over a text of L bytes: non-empty ranges, in any order,
\* overlapping or not; the k-th link has the URL k.
LinkShapes(L) ==
    {l \in [start : 0..L, end : 0..L, requires_modifiers : BOOLEAN] : l.start < l.end}

LinkSeqs(L) ==
    UNION {{[k \in 1..n |-> [start |-> f[k].start, end |-> f[k].end, url |-> k,
                             requires_modifiers |-> f[k].requires_modifiers]] :
               f \in [1..n -> LinkShapes(L)]} : n \in 0..MaxLinks}

\* The painted text, two one-byte chars, laid out on one row, one pixel
\* per byte.
PaintText == <<1, 1>>
PaintLayout == [i \in 0..SumSeq(PaintText) |-> [x |-> i, y |-> 0]]

\* The text view states of the painted element: none, without a selection,
\* with a selection over the first char, with a selection below the text.
PaintTextViewStates(line_height) ==
    {NoTextView}
    \cup {[present |-> TRUE, is_selectable |-> s, has_selection |-> FALSE,
           selection_bounds |-> EmptyBounds] : s \in BOOLEAN}
    \cup {[present |-> TRUE, is_selectable |-> TRUE, has_selection |-> TRUE,
           selection_bounds |-> [left |-> 0, top |-> t * line_height, right |-> 1,
                                 bottom |-> (t + 1) * line_height]] : t \in {0, 2}}

PaintInit ==
    /\ RunIdle
    /\ PtIdle
    /\ SplitIdle
    /\ TokIdle
    /\ EncIdle
    /\ UrlIdle
    /\ MarksIdle
    /\ InlIdle
    /\ DocIdle
    /\ PrefixIdle
    /\ sel_line_height = 2 * HalfLineHeight
    /\ sel_chars = PaintText
    /\ sel_layout = PaintLayout
    /\ text_view_state \in PaintTextViewStates(sel_line_height)
    /\ sel_done = FALSE
    /\ sel_result = [is_selectable |-> FALSE, is_selection |-> FALSE, selection |-> NoneSelection]
    /\ links \in LinkSeqs(SumSeq(PaintText))
    /\ state_hovered_index = NoneIdx
    /\ state_selection = NoneSelection
    /\ mouse_position = Outside
    /\ modifiers_secondary = FALSE
    /\ painted = FALSE
    /\ cursor_style = "Default"
    /\ hovered_index = NoneIdx
    /\ mouse_up_registered = FALSE
    /\ last_step = "None"
    /\ opened_urls = <<>>
    /\ propagation_stopped = FALSE
    /\ notified = FALSE

\* A store that keeps the old selection when the paint computed none.
StoreSelectionIfSome(stored, selection) ==
    IF selection = NoneSelection THEN stored ELSE selection

\* line 517: state.selection = selection
StoreSelection(stored, selection) == selection

\* lines 501-587
Paint ==
    LET r    == layout_selections(sel_chars, sel_layout, text_view_state, sel_line_height)
        link == link_for_position(links, mouse_position)
    IN  /\ painted' = TRUE
        /\ state_selection' = StoreSelection(state_selection, r.selection)
        /\ cursor_style' =
               IF link # NoneLink /\ ShowsPointingHand(link, modifiers_secondary)
               THEN "PointingHand"
               ELSE IF r.is_selection \/ r.is_selectable THEN "IBeam" ELSE "Default"
        /\ hovered_index' = state_hovered_index
        /\ mouse_up_registered' = ~r.is_selection
        /\ last_step' = "Paint"
        /\ opened_urls' = <<>>
        /\ propagation_stopped' = FALSE
        /\ notified' = FALSE
        /\ UNCHANGED <<links, state_hovered_index, mouse_position, modifiers_secondary>>
        /\ UNCHANGED <<runVars, ptVars, selVars, splitVars, tokVars, encVars, urlVars, marksVars, inlVars, docVars, prefixVars>>

\* lines 549-561: one call of the mouse-move closure; `hovered` is its
\* captured hovered_index, is_hovered is hitbox.is_hovered(window)
MouseMoveHandler(hovered, position, bubble, is_hovered) ==
    IF ~bubble \/ ~is_hovered
    THEN [hovered_index |-> hovered, notified |-> FALSE]
    ELSE LET current == hovered
             updated == position.index
         IN  IF current # updated
             THEN [hovered_index |-> updated, notified |-> TRUE]
             ELSE [hovered_index |-> hovered, notified |-> FALSE]

\* A mouse-move event: the window calls the closure of the last paint in
\* the capture phase and then in the bubble phase.
MouseMove(position, secondary, is_hovered) ==
    /\ painted
    /\ mouse_position' = position
    /\ modifiers_secondary' = secondary
    /\ LET capture == MouseMoveHandler(hovered_index, position, FALSE, is_hovered)
           bubble  == MouseMoveHandler(capture.hovered_index, position, TRUE, is_hovered)
       IN  /\ hovered_index' = bubble.hovered_index
           /\ notified' = (capture.notified \/ bubble.notified)
    /\ last_step' = "MouseMove"
    /\ opened_urls' = <<>>
    /\ propagation_stopped' = FALSE
    /\ UNCHANGED <<links, state_hovered_index, state_selection, painted, cursor_style,
                   mouse_up_registered>>
    /\ UNCHANGED <<runVars, ptVars, selVars, splitVars, tokVars, encVars, urlVars, marksVars, inlVars, docVars, prefixVars>>

\* What one call of a handler did: the URLs it opened, and whether it
\* stopped the propagation.
NoEffect == [opened |-> <<>>, stopped |-> FALSE]

\* lines 570-584: one call of the mouse-up closure
MouseUpHandler(ls, position, secondary, bubble) ==
    IF ~position.in_bounds \/ ~bubble
    THEN NoEffect
    ELSE LET link == link_for_position(ls, position)
         IN  IF link = NoneLink
             THEN NoEffect
             ELSE IF ~MayOpen(link, secondary)
             THEN NoEffect
             ELSE [opened |-> <<link.url>>, stopped |-> TRUE]

\* A mouse-up event: if the last paint registered the closure (line 564),
\* the window calls it in the capture phase and, unless the propagation was
\* stopped, in the bubble phase.
MouseUp(position, secondary) ==
    /\ painted
    /\ mouse_position' = position
    /\ modifiers_secondary' = secondary
    /\ LET capture == IF mouse_up_registered
                      THEN MouseUpHandler(links, position, secondary, FALSE)
                      ELSE NoEffect
           bubble  == IF mouse_up_registered /\ ~capture.stopped
                      THEN MouseUpHandler(links, position, secondary, TRUE)
                      ELSE NoEffect
       IN  /\ opened_urls' = capture.opened \o bubble.opened
           /\ propagation_stopped' = (capture.stopped \/ bubble.stopped)
    /\ last_step' = "MouseUp"
    /\ notified' = FALSE
    /\ UNCHANGED <<links, state_hovered_index, state_selection, painted, cursor_style,
                   hovered_index, mouse_up_registered>>
    /\ UNCHANGED <<runVars, ptVars, selVars, splitVars, tokVars, encVars, urlVars, marksVars, inlVars, docVars, prefixVars>>

\* The text view's selection changes between two paints (line 108 reads it).
TextViewChanged(tv) ==
    /\ tv # text_view_state
    /\ text_view_state' = tv
    /\ last_step' = "TextView"
    /\ opened_urls' = <<>>
    /\ propagation_stopped' = FALSE
    /\ notified' = FALSE
    /\ UNCHANGED <<sel_chars, sel_layout, sel_line_height, sel_done, sel_result>>
    /\ UNCHANGED <<links, state_hovered_index, state_selection, mouse_position,
                   modifiers_secondary, painted, cursor_style, hovered_index,
                   mouse_up_registered>>
    /\ UNCHANGED <<runVars, ptVars, splitVars, tokVars, encVars, urlVars, marksVars, inlVars, docVars, prefixVars>>

PaintNext ==
    \/ Paint
    \/ \E position \in Positions(SumSeq(PaintText)) : \E secondary \in BOOLEAN :
       \E is_hovered \in {h \in BOOLEAN : h => position.in_bounds} :
           MouseMove(position, secondary, is_hovered)
    \/ \E position \in Positions(SumSeq(PaintText)) : \E secondary \in BOOLEAN :
           MouseUp(position, secondary)
    \/ \E tv \in PaintTextViewStates(sel_line_height) : TextViewChanged(tv)

SpecPaint == PaintInit /\ [][PaintNext]_vars

\* The link the last mouse-up was on: the one link_for_position returns for
\* the position of the event.
UpLink == link_for_position(links, mouse_position)

\* C3: a mouse-up without the secondary modifier on a link
\* whose requires_modifiers is true opens no URL and does not stop the
\* propagation; and whenever the URL of such a link has been opened, the
\* step was a mouse-up that carried the secondary modifier.
C3_ModifierGatedOpen ==
    /\ (/\ last_step = "MouseUp"
        /\ UpLink # NoneLink
        /\ UpLink.requires_modifiers
        /\ ~modifiers_secondary)
           => (opened_urls = <<>> /\ ~propagation_stopped)
    /\ \A k \in 1..Len(links) :
           (links[k].requires_modifiers /\ opened_urls = <<links[k].url>>)
               => (last_step = "MouseUp" /\ modifiers_secondary)

\* A mouse-up inside the bounds, without the modifier, on a
\* link that requires it, reaches the registered handler and opens nothing.
C3_Witness ==
    /\ last_step = "MouseUp"
    /\ mouse_up_registered
    /\ mouse_position.in_bounds
    /\ UpLink # NoneLink
    /\ UpLink.requires_modifiers
    /\ ~modifiers_secondary
    /\ opened_urls = <<>>
    /\ ~propagation_stopped

\* C27: after every paint InlineState.selection is the selection of that
\* paint: none without a text-view state, without a selection or when no
\* char qualifies, whatever was stored before; otherwise the range from the
\* first to the last qualifying char, with start < end and both ends on
\* char boundaries within the text.
C27_StoredSelection ==
    last_step = "Paint" =>
        IF ~text_view_state.present \/ ~text_view_state.has_selection \/ QualifyingChars = {}
        THEN state_selection = NoneSelection
        ELSE /\ state_selection # NoneSelection
             /\ state_selection.start < state_selection.end
             /\ \E i \in 1..SelCount : \E j \in (i + 1)..(SelCount + 1) :
                    /\ state_selection = [start |-> Off(i), end |-> Off(j)]
                    /\ Qualifies(i)
                    /\ Qualifies(j - 1)
                    /\ \A k \in QualifyingChars : i <= k /\ k < j

\* A paint that stores a selection, and a paint without a text-view
\* selection on an element whose text view state has changed.
C27_Witness ==
    /\ last_step = "Paint"
    /\ text_view_state.present
    /\ text_view_state.has_selection
    /\ state_selection = [start |-> 0, end |-> 1]

\* The link under the mouse at the last paint or mouse event.
MouseLink == link_for_position(links, mouse_position)

\* C26: when a paint has set the pointing hand for the link under the
\* mouse, the click-to-open handler is registered (no text selection is
\* active), and a mouse-up at that position with the same modifier state,
\* handled by the handlers of that paint, opens the URL of that link.
C26_PointingHandOpens ==
    [][(last_step = "Paint" /\ cursor_style = "PointingHand") =>
           /\ mouse_up_registered
           /\ (/\ last_step' = "MouseUp"
               /\ mouse_position' = mouse_position
               /\ modifiers_secondary' = modifiers_secondary)
                  => opened_urls' = <<MouseLink.url>>]_vars

\* Paints and mouse-move events on an element in front of every other one:
\* its hitbox is hovered when the pointer is within its bounds.
HoverNext ==
    \/ Paint
    \/ \E position \in Positions(SumSeq(PaintText)) : \E secondary \in BOOLEAN :
           MouseMove(position, secondary, position.in_bounds)

SpecHover == PaintInit /\ [][HoverNext]_vars

\* C25: over paints and mouse-move events the handler notifies the view
\* only when the index under the pointer differs from the index under the
\* pointer at the previous mouse-move event: a pointer that stays on the
\* same index of the text causes no notification, also across a repaint.
C25_NotifyOnChange ==
    [][(/\ last_step' = "MouseMove"
        /\ mouse_position.index # NoneIdx
        /\ mouse_position'.index = mouse_position.index) => ~notified']_vars

====
